---- MODULE Spec2Model ----
(***************************************************************************)
(* The headline/category store of src/src/services/headline.ts: the        *)
(* in-memory dbData, its db.json copy, and the service functions acting    *)
(* on them.  Every service function awaits a timer and then runs its body  *)
(* synchronously, so each body is one atomic step.  The caller awaits each  *)
(* call: last holds the call that completed and its outcome until the      *)
(* caller has taken it (Settle), and the caller then makes its next call.  *)
(* That each body is one step is itself checked in SpecConcurrent, where   *)
(* calls holds the calls in flight together and each takes its body one    *)
(* statement at a time; in the other specifications calls stays empty.     *)
(* tableHeadlines is the list the headline table of                        *)
(* src/src/components/headlines/headline-table.tsx shows (its headlines    *)
(* state), empty while no table is mounted.                                *)
(*                                                                         *)
(* Strings that the code trims, lower-cases or searches are sequences of   *)
(* one-character strings; ids are strings; a Date is its timestamp and an  *)
(* ISO date string are records of a kind and a timestamp.  An optional    *)
(* value is a sequence of length 0 (undefined) or 1.                       *)
(***************************************************************************)
EXTENDS Integers, Sequences, FiniteSets, TLC

VARIABLES dbData, disk, last, issued, calls, tableHeadlines

vars == <<dbData, disk, last, issued, calls, tableHeadlines>>

----------------------------------------------------------------------------
(* Bounds of the model *)

\* createHeadline calls explored on top of the loaded store
MaxCreates == 2
\* createCategory calls explored on top of the loaded store
MaxCategoryCreates == 1
\* longest id list handed to reorderHeadlines
MaxIds == 3
\* longest id list handed to the bulk operations
MaxDeleteIds == 1
\* service calls in flight at the same time
MaxCalls == 2

\* Array.from({ length: 25 }, ...) of generateInitialData
InitialHeadlineCount == 25

----------------------------------------------------------------------------
(* Strings *)

Range(s) == {s[i] : i \in 1..Len(s)}

Upper == <<"A","B","C","D","E","F","G","H","I","J","K","L","M","N","O","P","Q","R","S","T","U","V","W","X","Y","Z">>
LowerOf == <<"a","b","c","d","e","f","g","h","i","j","k","l","m","n","o","p","q","r","s","t","u","v","w","x","y","z">>

\* the lower-case letter of each upper-case letter
LowerMap ==
    [c \in Range(Upper) |-> LowerOf[CHOOSE i \in 1..Len(Upper) : Upper[i] = c]]

\* String.prototype.toLowerCase on one character
toLowerChar(c) == IF c \in DOMAIN LowerMap THEN LowerMap[c] ELSE c

\* String.prototype.toLowerCase
toLowerCase(s) == [i \in 1..Len(s) |-> toLowerChar(s[i])]

RECURSIVE trimStart(_)
trimStart(s) ==
    IF s # <<>> /\ Head(s) = " " THEN trimStart(Tail(s)) ELSE s

RECURSIVE trimEnd(_)
trimEnd(s) ==
    IF s # <<>> /\ s[Len(s)] = " " THEN trimEnd(SubSeq(s, 1, Len(s) - 1)) ELSE s

\* String.prototype.trim
trim(s) == trimEnd(trimStart(s))

\* String.prototype.includes
includes(s, t) ==
    \E i \in 0..(Len(s) - Len(t)) : SubSeq(s, i + 1, i + Len(t)) = t

RECURSIVE Digits(_)
\* the decimal digits of a template literal ${n}
Digits(n) ==
    IF n < 10 THEN <<ToString(n)>>
    ELSE Digits(n \div 10) \o <<ToString(n % 10)>>

\* Date.prototype.toISOString
toISOString(date) == [kind |-> "string", t |-> date.t]

\* new Date(isoString)
newDate(iso) == [kind |-> "Date", t |-> iso.t]

----------------------------------------------------------------------------
(* Arrays *)

\* Array.prototype.filter is SelectSeq of Sequences

\* Array.prototype.includes / Set.prototype.has over an id list
Has(s, x) == \E i \in 1..Len(s) : s[i] = x

RECURSIVE InsertByOrder(_, _)
\* insertion after every element whose order is not greater: stable
InsertByOrder(sorted, h) ==
    IF sorted = <<>> THEN <<h>>
    ELSE IF Head(sorted).order <= h.order
         THEN <<Head(sorted)>> \o InsertByOrder(Tail(sorted), h)
         ELSE <<h>> \o sorted

RECURSIVE SortByOrderFrom(_, _)
SortByOrderFrom(s, acc) ==
    IF s = <<>> THEN acc ELSE SortByOrderFrom(Tail(s), InsertByOrder(acc, Head(s)))

\* mutant: the comparator reversed, (a, b) => b.order - a.order
SortByOrder_mutDescending(s) ==
    LET asc == SortByOrderFrom(s, <<>>)
    IN  [i \in 1..Len(asc) |-> asc[Len(asc) + 1 - i]]

\* headlines.sort((a, b) => a.order - b.order): Array.prototype.sort is stable
SortByOrder(s) == SortByOrderFrom(s, <<>>)

----------------------------------------------------------------------------
(* The data: DbData, generateInitialData, loadData, saveData *)

HeadlineStates == <<"Draft", "In Review", "Approved", "Archived">>
HeadlinePriorities == <<"Normal", "High">>

\* a Date object at timestamp t
DateAt(t) == [kind |-> "Date", t |-> t]

\* let dbData = { headlines: [], categories: [], nextHeadlineId: 1, nextCategoryId: 1 }
EmptyDb ==
    [headlines |-> <<>>, categories |-> <<>>, nextHeadlineId |-> 1, nextCategoryId |-> 1]

initialCategories ==
    << [id |-> "tech",     name |-> <<"T","e","c","h","n","o","l","o","g","y">>],
       [id |-> "sports",   name |-> <<"S","p","o","r","t","s">>],
       [id |-> "business", name |-> <<"B","u","s","i","n","e","s","s">>],
       [id |-> "world",    name |-> <<"W","o","r","l","d"," ","N","e","w","s">>],
       [id |-> "local",    name |-> <<"L","o","c","a","l"," ","E","v","e","n","t","s">>],
       [id |-> "breaking", name |-> <<"B","r","e","a","k","i","n","g"," ","N","e","w","s">>] >>

\* .filter((value, index, self) => self.indexOf(value) === index)
uniqueValues(s) ==
    LET firstIndex(v) == CHOOSE i \in 1..Len(s) : s[i] = v /\ \A j \in 1..(i - 1) : s[j] # v
        keep == {i \in 1..Len(s) : firstIndex(s[i]) = i}
        nth(k) == CHOOSE i \in keep : Cardinality({j \in keep : j < i}) = k - 1
    IN  [k \in 1..Cardinality(keep) |-> s[nth(k)]]

\* the i-th element (0-based) of initialHeadlines
initialHeadline(i, publishDate) ==
    LET categoryIndex == i % (Len(initialCategories) - 1)
        isBreaking == (i % 7 = 0)
    IN  [ id |-> "headline-" \o ToString(i + 1),
          mainTitle |-> <<"H","e","a","d","l","i","n","e"," ">> \o Digits(i + 1) \o <<":"," ">>
                        \o (IF isBreaking THEN <<"B","R","E","A","K","I","N","G">> ELSE <<"N","e","w","s">>)
                        \o <<" ","a","b","o","u","t"," ","t","o","p","i","c"," ">> \o Digits(i + 1),
          subtitle |-> <<"T","h","i","s"," ","i","s"," ","a"," ","s","u","b","t","i","t","l","e"," ","f","o","r"," ","h","e","a","d","l","i","n","e"," ">> \o Digits(i + 1) \o <<","," ","p","r","o","v","i","d","i","n","g"," ","m","o","r","e"," ","c","o","n","t","e","x","t",".">>,
          categories |->
              uniqueValues(
                  <<initialCategories[categoryIndex + 1].id>>
                  \o (IF i % 5 = 0 /\ categoryIndex > 0
                      THEN <<initialCategories[categoryIndex].id>> ELSE <<>>)
                  \o (IF isBreaking THEN <<"breaking">> ELSE <<>>)),
          state |-> HeadlineStates[(i % 4) + 1],
          priority |-> HeadlinePriorities[(i % 2) + 1],
          displayLines |-> (i % 3) + 1,
          publishDate |-> toISOString(publishDate),
          isBreaking |-> isBreaking,
          order |-> i ]

generateInitialData(random) ==
    [ categories |-> initialCategories,
      headlines |-> [k \in 1..InitialHeadlineCount |-> initialHeadline(k - 1, random[k - 1])],
      nextCategoryId |-> Len(initialCategories) + 1,
      nextHeadlineId |-> InitialHeadlineCount + 1 ]

\* JSON.stringify(dbData, null, 2): the text of db.json
JSONstringify(db) == [json |-> db]

\* JSON.parse(fileContent)
JSONparse(text) == text.json

\* saveData: the file after the call; writeOk is whether fs.writeFileSync succeeds
\* (a failure is caught and logged, and the caller goes on)
saveData(db, file, writeOk) ==
    IF writeOk THEN <<JSONstringify(db)>> ELSE file

\* loadData with the data directory readable: the file's content if db.json
\* exists, else freshly generated data
loadData(file, random) ==
    IF file # <<>> THEN JSONparse(file[1]) ELSE generateInitialData(random)

\* the ids of the headlines of a store
HeadlineIds(db) == {db.headlines[i].id : i \in 1..Len(db.headlines)}

CategoryIds(db) == {db.categories[i].id : i \in 1..Len(db.categories)}

----------------------------------------------------------------------------
(* Outcomes of a call, recorded in last.res *)

\* the promise resolves with value v
Resolved(v) == [ok |-> TRUE, value |-> v]

\* throw new Error(...): kind names the message thrown
Thrown(kind) == [ok |-> FALSE, error |-> kind]

----------------------------------------------------------------------------
(* Category service functions *)

\* mutant: the names compared as they are, without toLowerCase()
nameExists_mutCaseSensitive(categories, trimmedName) ==
    \E i \in 1..Len(categories) : categories[i].name = trimmedName

\* dbData.categories.some(cat => cat.name.toLowerCase() === trimmedName.toLowerCase())
nameExists(categories, trimmedName) ==
    \E i \in 1..Len(categories) :
        toLowerCase(categories[i].name) = toLowerCase(trimmedName)

\* mutant: the category being renamed is compared with itself as well
nameConflicts_mutIncludesSelf(categories, id, trimmedName) ==
    \E i \in 1..Len(categories) :
        toLowerCase(categories[i].name) = toLowerCase(trimmedName)

\* dbData.categories.some(cat => cat.id !== id && cat.name.toLowerCase() === ...)
nameConflicts(categories, id, trimmedName) ==
    \E i \in 1..Len(categories) :
        /\ categories[i].id # id
        /\ toLowerCase(categories[i].name) = toLowerCase(trimmedName)

\* findIndex(x => x.id === id): the 1-based index, 0 for -1
findIndex(s, id) ==
    IF \E i \in 1..Len(s) : s[i].id = id
    THEN CHOOSE i \in 1..Len(s) : s[i].id = id /\ \A j \in 1..(i - 1) : s[j].id # id
    ELSE 0

createCategory(name, writeOk) ==
    LET trimmedName == trim(name)
        newId == "category-" \o ToString(dbData.nextCategoryId)
        newCategory == [id |-> newId, name |-> trimmedName]
        db == [dbData EXCEPT !.nextCategoryId = @ + 1,
                             !.categories = Append(@, newCategory)]
    IN  /\ \/ nameExists(dbData.categories, trimmedName)
           \/ dbData.nextCategoryId <= Len(initialCategories) + MaxCategoryCreates
        /\ IF nameExists(dbData.categories, trimmedName)
           THEN /\ dbData' = dbData
                /\ disk' = disk
                /\ last' = [op |-> "createCategory", name |-> name, pre |-> dbData,
                            res |-> Thrown("already exists")]
           ELSE /\ dbData' = db
                /\ disk' = saveData(db, disk, writeOk)
                /\ last' = [op |-> "createCategory", name |-> name, pre |-> dbData,
                            res |-> Resolved(newCategory)]
        /\ UNCHANGED <<issued, calls, tableHeadlines>>

updateCategory(id, name, writeOk) ==
    LET index == findIndex(dbData.categories, id)
        trimmedName == trim(name)
        db == [dbData EXCEPT !.categories[index].name = trimmedName]
    IN  /\ IF index = 0
           THEN /\ dbData' = dbData
                /\ disk' = disk
                /\ last' = [op |-> "updateCategory", id |-> id, name |-> name,
                            pre |-> dbData, res |-> Thrown("not found")]
           ELSE IF nameConflicts(dbData.categories, id, trimmedName)
           THEN /\ dbData' = dbData
                /\ disk' = disk
                /\ last' = [op |-> "updateCategory", id |-> id, name |-> name,
                            pre |-> dbData, res |-> Thrown("already exists")]
           ELSE /\ dbData' = db
                /\ disk' = saveData(db, disk, writeOk)
                /\ last' = [op |-> "updateCategory", id |-> id, name |-> name,
                            pre |-> dbData, res |-> Resolved("void")]
        /\ UNCHANGED <<issued, calls, tableHeadlines>>

\* mutant: the category is removed but the headlines are left as they are
withoutCategory_mutNoCascade(headline, id) == headline

\* headline.categories.filter(catId => catId !== id), a new object only if it changed
withoutCategory(headline, id) ==
    LET updatedCategories == SelectSeq(headline.categories, LAMBDA catId : catId # id)
    IN  IF Len(updatedCategories) = Len(headline.categories)
        THEN headline
        ELSE [headline EXCEPT !.categories = updatedCategories]

deleteCategory(id, writeOk) ==
    LET initialLength == Len(dbData.categories)
        categories == SelectSeq(dbData.categories, LAMBDA cat : cat.id # id)
        db == [dbData EXCEPT
                 !.categories = categories,
                 !.headlines = [i \in 1..Len(@) |-> withoutCategory(@[i], id)]]
    IN  /\ IF Len(categories) = initialLength
           THEN /\ dbData' = [dbData EXCEPT !.categories = categories]
                /\ disk' = disk
           ELSE /\ dbData' = db
                /\ disk' = saveData(db, disk, writeOk)
        /\ last' = [op |-> "deleteCategory", id |-> id, pre |-> dbData,
                    res |-> Resolved("void")]
        /\ UNCHANGED <<issued, calls, tableHeadlines>>

----------------------------------------------------------------------------
(* Headline service functions: mutations *)

RECURSIVE reduceMaxOrder(_, _)
\* dbData.headlines.reduce((max, h) => Math.max(max, h.order), -1)
reduceMaxOrder(headlines, max) ==
    IF headlines = <<>> THEN max
    ELSE reduceMaxOrder(Tail(headlines),
                        IF Head(headlines).order > max THEN Head(headlines).order ELSE max)

\* mutant: the next order taken from the array length instead of the maximum
maxOrder_mutLength(headlines) == Len(headlines) - 1

\* mutant: the maximum taken from 0, not from -1
maxOrder_mutFromZero(headlines) == reduceMaxOrder(headlines, 0)

maxOrder(headlines) == reduceMaxOrder(headlines, -1)

\* { ...headlineData, subtitle: headlineData.subtitle || '', publishDate: ..., id, order }
newHeadline(headlineData, newId, order) ==
    [f \in DOMAIN headlineData \cup {"subtitle", "publishDate", "id", "order"} |->
        CASE f = "subtitle" ->
                 IF "subtitle" \in DOMAIN headlineData THEN headlineData.subtitle ELSE <<>>
          [] f = "publishDate" -> toISOString(headlineData.publishDate)
          [] f = "id" -> newId
          [] f = "order" -> order
          [] OTHER -> headlineData[f]]

createHeadline(headlineData, writeOk) ==
    LET newId == "headline-" \o ToString(dbData.nextHeadlineId)
        created == newHeadline(headlineData, newId, maxOrder(dbData.headlines) + 1)
        db == [dbData EXCEPT !.nextHeadlineId = @ + 1,
                             !.headlines = Append(@, created)]
    IN  /\ dbData.nextHeadlineId <= InitialHeadlineCount + MaxCreates
        /\ dbData' = db
        /\ disk' = saveData(db, disk, writeOk)
        /\ last' = [op |-> "createHeadline", headlineData |-> headlineData,
                    pre |-> dbData, issued |-> issued, res |-> Resolved(newId)]
        /\ issued' = issued \cup {newId}
        /\ UNCHANGED <<calls, tableHeadlines>>

\* mutant: the order of the update is merged like any other field
dataToMerge_mutKeepsOrder(headlineUpdate) ==
    [f \in DOMAIN headlineUpdate |->
        IF f = "publishDate" /\ headlineUpdate[f].kind = "Date"
        THEN toISOString(headlineUpdate[f])
        ELSE headlineUpdate[f]]

\* const { order, ...updateData } = headlineUpdate, and a Date publishDate made a string
dataToMerge(headlineUpdate) ==
    [f \in DOMAIN headlineUpdate \ {"order"} |->
        IF f = "publishDate" /\ headlineUpdate[f].kind = "Date"
        THEN toISOString(headlineUpdate[f])
        ELSE headlineUpdate[f]]

\* { ...dbData.headlines[index], ...dataToMerge, subtitle: ... }
mergedHeadline(headline, merge) ==
    [f \in DOMAIN headline \cup DOMAIN merge |->
        IF f \in DOMAIN merge THEN merge[f] ELSE headline[f]]

updateHeadline(id, headlineUpdate, writeOk) ==
    LET index == findIndex(dbData.headlines, id)
        db == [dbData EXCEPT !.headlines[index] =
                  mergedHeadline(@, dataToMerge(headlineUpdate))]
    IN  /\ IF index = 0
           THEN /\ dbData' = dbData
                /\ disk' = disk
                /\ last' = [op |-> "updateHeadline", id |-> id,
                            headlineUpdate |-> headlineUpdate, pre |-> dbData,
                            res |-> Thrown("not found")]
           ELSE /\ dbData' = db
                /\ disk' = saveData(db, disk, writeOk)
                /\ last' = [op |-> "updateHeadline", id |-> id,
                            headlineUpdate |-> headlineUpdate, pre |-> dbData,
                            res |-> Resolved("void")]
        /\ UNCHANGED <<issued, calls, tableHeadlines>>

\* new Map(orderedIds.map((id, index) => [id, index])).get(id): a later entry of
\* the same id replaces an earlier one; indexes are 0-based
newOrderMapGet(orderedIds, id) ==
    (CHOOSE i \in 1..Len(orderedIds) :
        orderedIds[i] = id /\ \A j \in (i + 1)..Len(orderedIds) : orderedIds[j] # id) - 1

\* mutant: the named headlines are numbered from 0, wherever they were
minCurrentOrder_mutZero(headlines, orderedIds) == 0

\* the forEach taking Math.min over the named headlines, from Infinity, and
\* if (minCurrentOrder === Infinity) minCurrentOrder = 0
minCurrentOrder(headlines, orderedIds) ==
    LET named == {headlines[i].order : i \in {j \in 1..Len(headlines) :
                                                Has(orderedIds, headlines[j].id)}}
    IN  IF named = {} THEN 0
        ELSE CHOOSE m \in named : \A o \in named : m <= o

\* mutant: only the named headlines are kept
withNewOrders_mutDropsUnnamed(headlines, orderedIds) ==
    LET base == minCurrentOrder(headlines, orderedIds)
        kept == SelectSeq(headlines, LAMBDA h : Has(orderedIds, h.id))
    IN  [i \in 1..Len(kept) |->
            [kept[i] EXCEPT !.order = base + newOrderMapGet(orderedIds, kept[i].id)]]

\* headline.order = minCurrentOrder + newOrderMap.get(headline.id) for the named ones
withNewOrders(headlines, orderedIds) ==
    LET base == minCurrentOrder(headlines, orderedIds)
    IN  [i \in 1..Len(headlines) |->
            IF Has(orderedIds, headlines[i].id)
            THEN [headlines[i] EXCEPT !.order = base + newOrderMapGet(orderedIds, headlines[i].id)]
            ELSE headlines[i]]

\* mutant: the orders are left as the sort found them
renumbered_mutKeepsOrders(headlines) == headlines

\* dbData.headlines.forEach((headline, index) => { headline.order = index })
renumbered(headlines) ==
    [i \in 1..Len(headlines) |-> [headlines[i] EXCEPT !.order = i - 1]]

\* mutant: the array is renumbered without being sorted first
reordered_mutNoSort(headlines, orderedIds) ==
    renumbered(withNewOrders(headlines, orderedIds))

\* the headline array reorderHeadlines leaves
reordered(headlines, orderedIds) ==
    renumbered(SortByOrder(withNewOrders(headlines, orderedIds)))

reorderHeadlines(orderedIds, writeOk) ==
    LET db == [dbData EXCEPT !.headlines = reordered(@, orderedIds)]
    IN  /\ dbData' = db
        /\ disk' = saveData(db, disk, writeOk)
        /\ last' = [op |-> "reorderHeadlines", orderedIds |-> orderedIds,
                    pre |-> dbData, res |-> Resolved("void")]
        /\ UNCHANGED <<issued, calls, tableHeadlines>>

\* mutant: an id that is not in the store is an error
deleteHeadline_mutThrowsIfAbsent(id, writeOk) ==
    LET initialLength == Len(dbData.headlines)
        db == [dbData EXCEPT !.headlines = SelectSeq(@, LAMBDA h : h.id # id)]
    IN  /\ dbData' = db
        /\ disk' = IF Len(db.headlines) < initialLength
                   THEN saveData(db, disk, writeOk) ELSE disk
        /\ last' = [op |-> "deleteHeadline", id |-> id, pre |-> dbData,
                    res |-> IF Len(db.headlines) < initialLength
                            THEN Resolved("void") ELSE Thrown("not found")]
        /\ UNCHANGED <<issued, calls, tableHeadlines>>

deleteHeadline(id, writeOk) ==
    LET initialLength == Len(dbData.headlines)
        db == [dbData EXCEPT !.headlines = SelectSeq(@, LAMBDA h : h.id # id)]
    IN  /\ dbData' = db
        /\ disk' = IF Len(db.headlines) < initialLength
                   THEN saveData(db, disk, writeOk) ELSE disk
        /\ last' = [op |-> "deleteHeadline", id |-> id, pre |-> dbData,
                    res |-> Resolved("void")]
        /\ UNCHANGED <<issued, calls, tableHeadlines>>

deleteMultipleHeadlines(ids, writeOk) ==
    LET initialLength == Len(dbData.headlines)
        db == [dbData EXCEPT !.headlines = SelectSeq(@, LAMBDA h : ~Has(ids, h.id))]
        deletedCount == initialLength - Len(db.headlines)
    IN  /\ dbData' = db
        /\ disk' = IF deletedCount > 0 THEN saveData(db, disk, writeOk) ELSE disk
        /\ last' = [op |-> "deleteMultipleHeadlines", ids |-> ids, pre |-> dbData,
                    res |-> Resolved("void")]
        /\ UNCHANGED <<issued, calls, tableHeadlines>>

updateMultipleHeadlineStates(ids, state, writeOk) ==
    LET changes(h) == Has(ids, h.id) /\ h.state # state
        updatedCount == Cardinality({i \in 1..Len(dbData.headlines) :
                                        changes(dbData.headlines[i])})
        db == [dbData EXCEPT !.headlines =
                  [i \in 1..Len(@) |->
                      IF changes(@[i]) THEN [@[i] EXCEPT !.state = state] ELSE @[i]]]
    IN  /\ dbData' = db
        /\ disk' = IF updatedCount > 0 THEN saveData(db, disk, writeOk) ELSE disk
        /\ last' = [op |-> "updateMultipleHeadlineStates", ids |-> ids, state |-> state,
                    pre |-> dbData, res |-> Resolved("void")]
        /\ UNCHANGED <<issued, calls, tableHeadlines>>

----------------------------------------------------------------------------
(* Headline service functions: reads *)

\* { ...headline, publishDate: new Date(headline.publishDate) }
parseHeadlineDates(headline) ==
    [headline EXCEPT !.publishDate = newDate(@)]

\* no filter field is given
NoFilters ==
    [ids |-> <<>>, states |-> <<>>, category |-> <<>>, search |-> <<>>, isBreaking |-> <<>>]

\* filters.ids && filters.ids.length > 0
idsGiven(filters) == filters.ids # <<>> /\ Len(filters.ids[1]) > 0

\* filters.states && filters.states.length > 0
statesGiven(filters) == filters.states # <<>> /\ Len(filters.states[1]) > 0

\* if (filters.category): undefined and '' are falsy
categoryGiven(filters) == filters.category # <<>> /\ filters.category[1] # ""

\* if (filters.search): undefined and '' are falsy
searchGiven(filters) == filters.search # <<>> /\ filters.search[1] # <<>>

\* filters.isBreaking !== undefined
isBreakingGiven(filters) == filters.isBreaking # <<>>

\* the if/else chain of filters over a copy of dbData.headlines
filteredHeadlines(headlines, filters) ==
    IF idsGiven(filters)
    THEN SelectSeq(headlines, LAMBDA h : Has(filters.ids[1], h.id))
    ELSE
      LET byState ==
              IF statesGiven(filters)
              THEN SelectSeq(headlines, LAMBDA h : Has(filters.states[1], h.state))
              ELSE headlines
          byCategory ==
              IF categoryGiven(filters)
              THEN SelectSeq(byState, LAMBDA h : Has(h.categories, filters.category[1]))
              ELSE byState
          bySearch ==
              IF searchGiven(filters)
              THEN LET searchTerm == toLowerCase(filters.search[1])
                   IN  SelectSeq(byCategory,
                          LAMBDA h : \/ includes(toLowerCase(h.mainTitle), searchTerm)
                                     \/ includes(toLowerCase(h.subtitle), searchTerm))
              ELSE byCategory
      IN  IF isBreakingGiven(filters)
          THEN SelectSeq(bySearch, LAMBDA h : h.isBreaking = filters.isBreaking[1])
          ELSE bySearch

\* Array.prototype.slice(startIndex, endIndex) with 0 <= startIndex <= endIndex
slice(s, startIndex, endIndex) ==
    SubSeq(s, startIndex + 1, IF endIndex < Len(s) THEN endIndex ELSE Len(s))

\* mutant: the page taken as 0-based
startIndexOf_mutZeroBased(page, pageSize) == page * pageSize

\* const startIndex = (page - 1) * pageSize
startIndexOf(page, pageSize) == (page - 1) * pageSize

\* mutant: a request filtered by ids is paginated like any other
usePagination_mutIgnoresIds(filters, page, pageSize) ==
    page > 0 /\ pageSize > 0

\* page > 0 && pageSize > 0 && (!filters.ids || filters.ids.length === 0)
usePagination(filters, page, pageSize) ==
    page > 0 /\ pageSize > 0 /\ ~idsGiven(filters)

\* the GetHeadlinesResult of getHeadlines(filters, page, pageSize) on a store
getHeadlinesResult(db, filters, page, pageSize) ==
    LET sorted == SortByOrder(filteredHeadlines(db.headlines, filters))
        totalCount == Len(sorted)
        startIndex == startIndexOf(page, pageSize)
        endIndex == startIndex + pageSize
        paginatedHeadlines ==
            IF usePagination(filters, page, pageSize)
            THEN slice(sorted, startIndex, endIndex)
            ELSE sorted
    IN  [headlines |-> [i \in 1..Len(paginatedHeadlines) |->
                           parseHeadlineDates(paginatedHeadlines[i])],
         totalCount |-> totalCount]

getHeadlines(filters, page, pageSize) ==
    /\ last' = [op |-> "getHeadlines", filters |-> filters, page |-> page,
                pageSize |-> pageSize,
                res |-> Resolved(getHeadlinesResult(dbData, filters, page, pageSize))]
    /\ UNCHANGED <<dbData, disk, issued, calls, tableHeadlines>>

----------------------------------------------------------------------------
(* Server actions of src/src/actions/headline-actions.ts *)

\* the keys of headlineActionSchema
SchemaFields ==
    {"mainTitle", "subtitle", "categories", "state", "priority", "displayLines",
     "publishDate", "isBreaking"}

\* headlineActionSchema.partial().safeParse(data).success: each key that is given
\* satisfies its rule
safeParseSuccess(data) ==
    /\ "mainTitle" \in DOMAIN data => Len(data.mainTitle) >= 1
    /\ "categories" \in DOMAIN data => Len(data.categories) >= 1
    /\ "state" \in DOMAIN data => data.state \in Range(HeadlineStates)
    /\ "priority" \in DOMAIN data => data.priority \in Range(HeadlinePriorities)
    /\ "displayLines" \in DOMAIN data => data.displayLines \in 1..3
    /\ "publishDate" \in DOMAIN data => data.publishDate.kind = "Date"

\* validationResult.data: a z.object drops the keys its schema does not know
safeParseData(data) == [f \in DOMAIN data \cap SchemaFields |-> data[f]]

\* updateHeadlineAction(id, data), the updateHeadline call it awaits included
updateHeadlineAction(id, data, writeOk) ==
    LET validated == safeParseData(data)
        index == findIndex(dbData.headlines, id)
        db == [dbData EXCEPT !.headlines[index] =
                  mergedHeadline(@, dataToMerge(validated))]
        outcome(res) == [op |-> "updateHeadlineAction", id |-> id, data |-> data,
                         pre |-> dbData, res |-> res]
    IN  /\ IF ~safeParseSuccess(data)
           THEN /\ dbData' = dbData
                /\ disk' = disk
                /\ last' = outcome(Thrown("invalid data"))
           ELSE IF DOMAIN validated = {}
           THEN /\ dbData' = dbData
                /\ disk' = disk
                /\ last' = outcome(Resolved([success |-> TRUE,
                                             message |-> "No changes provided."]))
           ELSE IF index = 0
           THEN /\ dbData' = dbData
                /\ disk' = disk
                /\ last' = outcome(Thrown("Failed to update headline."))
           ELSE /\ dbData' = db
                /\ disk' = saveData(db, disk, writeOk)
                /\ last' = outcome(Resolved([success |-> TRUE]))
        /\ UNCHANGED <<issued, calls, tableHeadlines>>

\* the keys of headlineActionSchema in the order the schema lists them
SchemaKeys ==
    <<"mainTitle", "subtitle", "categories", "state", "priority", "displayLines",
      "publishDate", "isBreaking">>

\* the message of the issue zod raises for key f of data, if it raises one
issues(data, f) ==
    IF f \notin DOMAIN data
    THEN CASE f \in {"mainTitle", "categories", "state", "priority", "displayLines"} ->
                  <<"Required">>
           [] f = "publishDate" -> <<"Publish date is required">>
           [] OTHER -> <<>>
    ELSE CASE f = "mainTitle" /\ Len(data[f]) < 1 -> <<"Main title cannot be empty">>
           [] f = "categories" /\ Len(data[f]) < 1 ->
                  <<"At least one category is required">>
           [] f = "state" /\ data[f] \notin Range(HeadlineStates) ->
                  <<"Invalid enum value. Expected 'Draft' | 'In Review' | 'Approved' | 'Archived'">>
           [] f = "priority" /\ data[f] \notin Range(HeadlinePriorities) ->
                  <<"Invalid enum value. Expected 'High' | 'Normal'">>
           [] f = "displayLines" /\ data[f] < 1 ->
                  <<"Number must be greater than or equal to 1">>
           [] f = "displayLines" /\ data[f] > 3 ->
                  <<"Number must be less than or equal to 3">>
           [] OTHER -> <<>>

RECURSIVE flatIssues(_, _)
\* the messages of the issues of the keys from the k-th on, key after key
flatIssues(data, k) ==
    IF k > Len(SchemaKeys) THEN <<>>
    ELSE issues(data, SchemaKeys[k]) \o flatIssues(data, k + 1)

\* mutant: the validation stops at the first issue
errorMessages_mutFirstOnly(data) ==
    IF flatIssues(data, 1) = <<>> THEN <<>> ELSE <<Head(flatIssues(data, 1))>>

\* Object.values(validationResult.error.flatten().fieldErrors).flat(), the
\* messages that are joined into the text of the error thrown
errorMessages(data) == flatIssues(data, 1)

\* validationResult.data of the full schema: unknown keys dropped, isBreaking
\* defaulted to false
parsedDraft(data) ==
    [f \in (DOMAIN data \cap SchemaFields) \cup {"isBreaking"} |->
        IF f \in DOMAIN data THEN data[f] ELSE FALSE]

\* createHeadlineAction(data), the createHeadline call it awaits included
createHeadlineAction(data, writeOk) ==
    LET headlineData == parsedDraft(data)
        newId == "headline-" \o ToString(dbData.nextHeadlineId)
        created == newHeadline(headlineData, newId, maxOrder(dbData.headlines) + 1)
        db == [dbData EXCEPT !.nextHeadlineId = @ + 1,
                             !.headlines = Append(@, created)]
        outcome(res) == [op |-> "createHeadlineAction", data |-> data,
                         pre |-> dbData, res |-> res]
    IN  IF errorMessages(data) # <<>>
        THEN /\ last' = outcome(Thrown([message |-> "Invalid headline data",
                                        errorMessages |-> errorMessages(data)]))
             /\ UNCHANGED <<dbData, disk, issued, calls, tableHeadlines>>
        ELSE /\ dbData.nextHeadlineId <= InitialHeadlineCount + MaxCreates
             /\ dbData' = db
             /\ disk' = saveData(db, disk, writeOk)
             /\ last' = outcome(Resolved([success |-> TRUE, id |-> newId]))
             /\ issued' = issued \cup {newId}
             /\ UNCHANGED <<calls, tableHeadlines>>

\* reorderHeadlinesAction(orderedIds), the reorderHeadlines call it awaits
\* included; an empty list returns before the service is called
reorderHeadlinesAction(orderedIds, writeOk) ==
    LET db == [dbData EXCEPT !.headlines = reordered(@, orderedIds)]
        outcome(res) == [op |-> "reorderHeadlinesAction", orderedIds |-> orderedIds,
                         pre |-> dbData, res |-> res]
    IN  /\ IF Len(orderedIds) = 0
           THEN /\ dbData' = dbData
                /\ disk' = disk
                /\ last' = outcome(Resolved([success |-> TRUE,
                                             message |-> "No headlines to reorder."]))
           ELSE /\ dbData' = db
                /\ disk' = saveData(db, disk, writeOk)
                /\ last' = outcome(Resolved([success |-> TRUE]))
        /\ UNCHANGED <<issued, calls, tableHeadlines>>

----------------------------------------------------------------------------
(* Initial states *)

\* no call is waiting for its caller
Idle == [op |-> "none"]

\* a call slot with no call in it
Free == [op |-> "none", pc |-> "free"]

\* no service call is in flight
NoCalls == [c \in 1..MaxCalls |-> Free]

\* the draws of Math.random of one generateInitialData call, as the publish date
\* they give each headline
FirstDraws == [i \in 0..(InitialHeadlineCount - 1) |-> DateAt(i % 2)]

\* the draws explored
RandomDraws == {FirstDraws}

\* the db.json an earlier run left behind: the generated data with all but the
\* first two headlines deleted again
PersistedDb ==
    [generateInitialData(FirstDraws) EXCEPT !.headlines = SubSeq(@, 1, 2)]

\* a db.json an earlier run left behind with the first five generated headlines
FiveHeadlinesDb ==
    [generateInitialData(FirstDraws) EXCEPT !.headlines = SubSeq(@, 1, 5)]

\* module initialisation, loadData(), with that db.json
InitFiveHeadlines ==
    /\ disk = <<JSONstringify(FiveHeadlinesDb)>>
    /\ dbData = loadData(disk, FirstDraws)
    /\ last = Idle
    /\ calls = NoCalls
    /\ tableHeadlines = <<>>
    /\ issued = HeadlineIds(generateInitialData(FirstDraws))

\* a db.json an earlier run left behind with the first four generated headlines
FourHeadlinesDb ==
    [generateInitialData(FirstDraws) EXCEPT !.headlines = SubSeq(@, 1, 4)]

\* module initialisation, loadData(), with that db.json
InitFourHeadlines ==
    /\ disk = <<JSONstringify(FourHeadlinesDb)>>
    /\ dbData = loadData(disk, FirstDraws)
    /\ last = Idle
    /\ calls = NoCalls
    /\ tableHeadlines = <<>>
    /\ issued = HeadlineIds(generateInitialData(FirstDraws))

\* order values a db.json may hold for its headlines: loadData takes the file as
\* it is, so the orders of a file edited by hand or written by an earlier revision
\* can have gaps, can repeat and need not ascend
StoredOrders == [1..3 -> {0, 1, 3}]

\* the first three generated headlines with the given orders
ThreeHeadlinesDb(orders) ==
    [generateInitialData(FirstDraws) EXCEPT
        !.headlines = [i \in 1..3 |-> [@[i] EXCEPT !.order = orders[i]]]]

\* module initialisation, loadData(), with such a db.json
InitAnyOrders ==
    \E orders \in StoredOrders :
        /\ disk = <<JSONstringify(ThreeHeadlinesDb(orders))>>
        /\ dbData = loadData(disk, FirstDraws)
        /\ last = Idle
        /\ calls = NoCalls
        /\ tableHeadlines = <<>>
        /\ issued = HeadlineIds(generateInitialData(FirstDraws))

\* module initialisation, loadData(), with db.json present
InitLoaded ==
    /\ disk = <<JSONstringify(PersistedDb)>>
    /\ dbData = loadData(disk, FirstDraws)
    /\ last = Idle
    /\ calls = NoCalls
    /\ tableHeadlines = <<>>
    /\ issued = HeadlineIds(generateInitialData(FirstDraws))

\* module initialisation, loadData(), with no db.json: generate and save
InitGenerated ==
    \E random \in RandomDraws :
        /\ dbData = loadData(<<>>, random)
        /\ disk = saveData(dbData, <<>>, TRUE)
        /\ last = Idle
        /\ calls = NoCalls
        /\ tableHeadlines = <<>>
        /\ issued = HeadlineIds(dbData)

----------------------------------------------------------------------------
(* Inputs *)

\* sequences over S of length at most n
SeqsUpTo(S, n) == UNION {[1..k -> S] : k \in 0..n}

\* ids of headlines the loaded store holds or can come to hold, and one it never holds
SomeHeadlineIds ==
    {"headline-" \o ToString(n) :
        n \in (1..Len(PersistedDb.headlines)) \cup
              ((InitialHeadlineCount + 1)..(InitialHeadlineCount + MaxCreates))}
    \cup {"headline-0"}

\* ids of a loaded headline, of the first created one, and of none
FewHeadlineIds ==
    {"headline-1", "headline-" \o ToString(InitialHeadlineCount + 1), "headline-0"}

PlainDraft ==
    [ mainTitle |-> <<"N","e","w">>, subtitle |-> <<>>, categories |-> <<"tech">>,
      state |-> "Draft", priority |-> "Normal", displayLines |-> 1,
      publishDate |-> DateAt(1), isBreaking |-> FALSE ]

\* category names as typed: a new name, the same name in another case and padded,
\* and the name of an initial category in another case and padded
SomeNames == {<<"T","e","c","h">>, <<" ","t","e","c","h">>, <<"S","P","O","R","T","S"," ">>}

\* ids of an initial category, of a created one, and of none
SomeCategoryIds == {"tech", "category-7", "category-0"}

\* partial updates of a headline's category list
SomeCategoryUpdates ==
    {[categories |-> <<"sports">>], [categories |-> <<"tech", "category-7">>]}

----------------------------------------------------------------------------
(* The ordering operations on the loaded store *)

\* the awaiting caller takes the outcome of its call
Settle ==
    /\ last # Idle
    /\ last' = Idle
    /\ UNCHANGED <<dbData, disk, issued, calls, tableHeadlines>>

\* the caller has no call outstanding
CallerReady == last = Idle

NextOrder ==
    \/ Settle
    \/ CallerReady /\ createHeadline(PlainDraft, TRUE)
    \/ CallerReady /\ \E id \in SomeHeadlineIds : deleteHeadline(id, TRUE)
    \/ CallerReady /\ \E ids \in SeqsUpTo(SomeHeadlineIds, MaxDeleteIds) :
                          deleteMultipleHeadlines(ids, TRUE)
    \/ CallerReady /\ \E orderedIds \in SeqsUpTo(SomeHeadlineIds, MaxIds) :
                          reorderHeadlines(orderedIds, TRUE)

SpecOrder == InitLoaded /\ [][NextOrder]_vars

----------------------------------------------------------------------------
(* The category operations, with headlines filed under the categories *)

NextCategories ==
    \/ Settle
    \/ CallerReady /\ \E name \in SomeNames : createCategory(name, TRUE)
    \/ CallerReady /\ \E id \in SomeCategoryIds, name \in SomeNames :
                          updateCategory(id, name, TRUE)
    \/ CallerReady /\ \E id \in SomeCategoryIds : deleteCategory(id, TRUE)
    \/ CallerReady /\ createHeadline(PlainDraft, TRUE)
    \/ CallerReady /\ \E id \in FewHeadlineIds, update \in SomeCategoryUpdates :
                          updateHeadline(id, update, TRUE)
    \/ CallerReady /\ \E id \in FewHeadlineIds : deleteHeadline(id, TRUE)

SpecCategories == InitLoaded /\ [][NextCategories]_vars

----------------------------------------------------------------------------
(* Failing writes and restarts *)

\* the process is restarted: the module is initialised again and loadData()
\* replaces dbData by what db.json holds (or generates and saves anew)
Restart(random, writeOk) ==
    /\ dbData' = loadData(disk, random)
    /\ disk' = IF disk # <<>> THEN disk ELSE saveData(dbData', disk, writeOk)
    /\ last' = Idle
    /\ UNCHANGED <<issued, calls, tableHeadlines>>

NextPersist ==
    \/ Settle
    \/ CallerReady /\ \E writeOk \in BOOLEAN : createHeadline(PlainDraft, writeOk)
    \/ CallerReady /\ \E id \in FewHeadlineIds, writeOk \in BOOLEAN :
                          deleteHeadline(id, writeOk)
    \/ CallerReady /\ \E orderedIds \in SeqsUpTo(FewHeadlineIds, 2), writeOk \in BOOLEAN :
                          reorderHeadlines(orderedIds, writeOk)
    \/ \E writeOk \in BOOLEAN : Restart(FirstDraws, writeOk)

SpecPersist == InitLoaded /\ [][NextPersist]_vars

----------------------------------------------------------------------------
(* The bulk operations on the loaded store *)

\* id lists of the bulk operations: up to two ids, so that an id can occur twice,
\* be in the store or not
SomeBulkIds == SeqsUpTo(FewHeadlineIds, 2)

\* a state a loaded headline is in and one none is in
SomeStates == {"Draft", "Approved"}

NextBulk ==
    \/ Settle
    \/ CallerReady /\ createHeadline(PlainDraft, TRUE)
    \/ CallerReady /\ \E ids \in SomeBulkIds : deleteMultipleHeadlines(ids, TRUE)
    \/ CallerReady /\ \E ids \in SomeBulkIds, state \in SomeStates :
                          updateMultipleHeadlineStates(ids, state, TRUE)

SpecBulk == InitLoaded /\ [][NextBulk]_vars

----------------------------------------------------------------------------
(* Updates of a headline, through the service and through the server action *)

\* the object with no key
NoFields == [f \in {} |-> TRUE]

\* partial updates handed to updateHeadline: none, an order alone and beside a
\* title, a publish date as a Date, a cleared subtitle with a state, categories
\* with the breaking flag
SomeUpdates ==
    { NoFields,
      [order |-> 7],
      [mainTitle |-> <<"X">>, order |-> 7],
      [publishDate |-> DateAt(0)],
      [subtitle |-> <<>>, state |-> "Archived"],
      [categories |-> <<"sports">>, isBreaking |-> TRUE] }

\* data handed to updateHeadlineAction: none, keys the schema does not know alone
\* and beside a title, an empty title, a state
SomeUpdateData ==
    { NoFields,
      [order |-> 7],
      [id |-> "headline-2"],
      [mainTitle |-> <<"Y">>, id |-> "headline-2", order |-> 7],
      [mainTitle |-> <<>>],
      [state |-> "In Review"] }

NextUpdate ==
    \/ Settle
    \/ CallerReady /\ createHeadline(PlainDraft, TRUE)
    \/ CallerReady /\ \E id \in FewHeadlineIds, headlineUpdate \in SomeUpdates :
                          updateHeadline(id, headlineUpdate, TRUE)
    \/ CallerReady /\ \E id \in FewHeadlineIds, data \in SomeUpdateData :
                          updateHeadlineAction(id, data, TRUE)

SpecUpdate == InitLoaded /\ [][NextUpdate]_vars

----------------------------------------------------------------------------
(* Service calls in flight together, statement by statement *)

\* the calls made while other calls are in flight
SomeCalls ==
    { [op |-> "deleteCategory", id |-> "tech"],
      [op |-> "reorderHeadlines", orderedIds |-> <<"headline-2", "headline-1">>],
      [op |-> "getHeadlines", filters |-> NoFilters, page |-> 0, pageSize |-> 0],
      [op |-> "getCategories"] }

\* the call is at its first statement, await new Promise(resolve =>
\* setTimeout(resolve, ...)): its timer is pending
AtTimer(c) == calls[c].pc = "timer"

\* the call is between two statements of the body that follows its await
InBody(c) == calls[c].pc \notin {"free", "timer"}

\* mutant: a callback may run although another one has not run to its end
eventLoopFree_mutPreemptive(c) == TRUE

\* mutant: createHeadline yields between reading maxOrder and the push, as if an
\* await stood there
eventLoopFree_mutYieldsAfterRead(c) ==
    \A d \in (1..MaxCalls) \ {c} : ~InBody(d) \/ calls[d].pc = "maxOrder"

\* the event loop takes up a callback of call c only when no other callback is
\* running: the body after a function's one await has no await in it, so it runs
\* from the timer to its return
eventLoopFree(c) == \A d \in (1..MaxCalls) \ {c} : ~InBody(d)

\* a service function is called and runs up to its await
invoke(c, call) ==
    /\ calls[c] = Free
    /\ calls' = [calls EXCEPT ![c] = [op |-> call.op, args |-> call, pc |-> "timer"]]
    /\ UNCHANGED <<dbData, disk, last, issued, tableHeadlines>>

\* the call returns: its promise settles with the outcome
return(c, outcome) ==
    /\ calls' = [calls EXCEPT ![c] = Free]
    /\ last' = outcome

\* getCategories after its timer: return [...dbData.categories]
getCategoriesBody(c) ==
    /\ calls[c].op = "getCategories" /\ AtTimer(c) /\ eventLoopFree(c)
    /\ return(c, [op |-> "getCategories", res |-> Resolved(dbData.categories),
                  committed |-> JSONparse(disk[1])])
    /\ UNCHANGED <<dbData, disk, issued, tableHeadlines>>

\* getHeadlines after its timer: the whole body
getHeadlinesBody(c) ==
    /\ calls[c].op = "getHeadlines" /\ AtTimer(c) /\ eventLoopFree(c)
    /\ LET a == calls[c].args
       IN  return(c, [op |-> "getHeadlines", filters |-> a.filters, page |-> a.page,
                      pageSize |-> a.pageSize,
                      res |-> Resolved(getHeadlinesResult(dbData, a.filters, a.page,
                                                          a.pageSize)),
                      committed |-> JSONparse(disk[1])])
    /\ UNCHANGED <<dbData, disk, issued, tableHeadlines>>

\* deleteCategory after its timer: initialLength is taken and dbData.categories
\* is replaced by the filtered array
deleteCategoryFilter(c) ==
    /\ calls[c].op = "deleteCategory" /\ AtTimer(c) /\ eventLoopFree(c)
    /\ dbData' = [dbData EXCEPT
                    !.categories = SelectSeq(@, LAMBDA cat : cat.id # calls[c].args.id)]
    /\ calls' = [calls EXCEPT ![c] =
                    [op |-> "deleteCategory", args |-> @.args, pc |-> "filtered",
                     pre |-> dbData, initialLength |-> Len(dbData.categories)]]
    /\ UNCHANGED <<disk, last, issued, tableHeadlines>>

\* deleteCategory: the if on the length; the category is removed from the headlines,
\* or the call returns when no category was removed
deleteCategoryCascade(c) ==
    /\ calls[c].op = "deleteCategory" /\ calls[c].pc = "filtered" /\ eventLoopFree(c)
    /\ IF Len(dbData.categories) = calls[c].initialLength
       THEN /\ return(c, [op |-> "deleteCategory", id |-> calls[c].args.id,
                          pre |-> calls[c].pre, post |-> dbData,
                          res |-> Resolved("void")])
            /\ UNCHANGED <<dbData, disk, issued, tableHeadlines>>
       ELSE /\ dbData' = [dbData EXCEPT !.headlines =
                            [i \in 1..Len(@) |-> withoutCategory(@[i], calls[c].args.id)]]
            /\ calls' = [calls EXCEPT ![c].pc = "save"]
            /\ UNCHANGED <<disk, last, issued, tableHeadlines>>

\* deleteCategory: saveData() and the return
deleteCategorySave(c) ==
    /\ calls[c].op = "deleteCategory" /\ calls[c].pc = "save" /\ eventLoopFree(c)
    /\ disk' = saveData(dbData, disk, TRUE)
    /\ return(c, [op |-> "deleteCategory", id |-> calls[c].args.id,
                  pre |-> calls[c].pre, post |-> dbData, res |-> Resolved("void")])
    /\ UNCHANGED <<dbData, issued, tableHeadlines>>

\* reorderHeadlines after its timer: the new orders are assigned to the named
\* headlines
reorderHeadlinesAssign(c) ==
    /\ calls[c].op = "reorderHeadlines" /\ AtTimer(c) /\ eventLoopFree(c)
    /\ dbData' = [dbData EXCEPT
                    !.headlines = withNewOrders(@, calls[c].args.orderedIds)]
    /\ calls' = [calls EXCEPT ![c] =
                    [op |-> "reorderHeadlines", args |-> @.args, pc |-> "assigned",
                     pre |-> dbData]]
    /\ UNCHANGED <<disk, last, issued, tableHeadlines>>

\* reorderHeadlines: dbData.headlines.sort(...)
reorderHeadlinesSort(c) ==
    /\ calls[c].op = "reorderHeadlines" /\ calls[c].pc = "assigned" /\ eventLoopFree(c)
    /\ dbData' = [dbData EXCEPT !.headlines = SortByOrder(@)]
    /\ calls' = [calls EXCEPT ![c].pc = "sorted"]
    /\ UNCHANGED <<disk, last, issued, tableHeadlines>>

\* reorderHeadlines: the forEach that renumbers
reorderHeadlinesRenumber(c) ==
    /\ calls[c].op = "reorderHeadlines" /\ calls[c].pc = "sorted" /\ eventLoopFree(c)
    /\ dbData' = [dbData EXCEPT !.headlines = renumbered(@)]
    /\ calls' = [calls EXCEPT ![c].pc = "save"]
    /\ UNCHANGED <<disk, last, issued, tableHeadlines>>

\* reorderHeadlines: saveData() and the return
reorderHeadlinesSave(c) ==
    /\ calls[c].op = "reorderHeadlines" /\ calls[c].pc = "save" /\ eventLoopFree(c)
    /\ disk' = saveData(dbData, disk, TRUE)
    /\ return(c, [op |-> "reorderHeadlines", orderedIds |-> calls[c].args.orderedIds,
                  pre |-> calls[c].pre, post |-> dbData, res |-> Resolved("void")])
    /\ UNCHANGED <<dbData, issued, tableHeadlines>>

NextConcurrent ==
    \/ \E c \in 1..MaxCalls, call \in SomeCalls : invoke(c, call)
    \/ \E c \in 1..MaxCalls : getCategoriesBody(c)
    \/ \E c \in 1..MaxCalls : getHeadlinesBody(c)
    \/ \E c \in 1..MaxCalls : deleteCategoryFilter(c)
    \/ \E c \in 1..MaxCalls : deleteCategoryCascade(c)
    \/ \E c \in 1..MaxCalls : deleteCategorySave(c)
    \/ \E c \in 1..MaxCalls : reorderHeadlinesAssign(c)
    \/ \E c \in 1..MaxCalls : reorderHeadlinesSort(c)
    \/ \E c \in 1..MaxCalls : reorderHeadlinesRenumber(c)
    \/ \E c \in 1..MaxCalls : reorderHeadlinesSave(c)

SpecConcurrent == InitLoaded /\ [][NextConcurrent]_vars

----------------------------------------------------------------------------
(* createHeadline calls in flight together, statement by statement *)

\* the calls made while other calls are in flight
SomeCreateCalls ==
    { [op |-> "createHeadline", headlineData |-> PlainDraft],
      [op |-> "reorderHeadlines", orderedIds |-> <<"headline-2", "headline-1">>],
      [op |-> "deleteHeadline", id |-> "headline-1"] }

\* the createHeadline calls started so far: those that took their id and those
\* still at their timer
CreatesStarted ==
    (dbData.nextHeadlineId - (InitialHeadlineCount + 1))
    + Cardinality({c \in 1..MaxCalls : calls[c].op = "createHeadline" /\ AtTimer(c)})

\* createHeadline after its timer: const newId = `headline-${dbData.nextHeadlineId++}`
createHeadlineNewId(c) ==
    /\ calls[c].op = "createHeadline" /\ AtTimer(c) /\ eventLoopFree(c)
    /\ LET newId == "headline-" \o ToString(dbData.nextHeadlineId)
       IN  /\ dbData' = [dbData EXCEPT !.nextHeadlineId = @ + 1]
           /\ calls' = [calls EXCEPT ![c] =
                           [op |-> "createHeadline", args |-> @.args, pc |-> "newId",
                            pre |-> dbData, newId |-> newId,
                            together |-> \E d \in (1..MaxCalls) \ {c} :
                                             calls[d].op = "createHeadline"]]
           /\ issued' = issued \cup {newId}
    /\ UNCHANGED <<disk, last, tableHeadlines>>

\* createHeadline: const maxOrder = dbData.headlines.reduce(...)
createHeadlineMaxOrder(c) ==
    /\ calls[c].op = "createHeadline" /\ calls[c].pc = "newId" /\ eventLoopFree(c)
    /\ calls' = [calls EXCEPT ![c] =
                    [op |-> "createHeadline", args |-> @.args, pc |-> "maxOrder",
                     pre |-> @.pre, newId |-> @.newId, together |-> @.together,
                     maxOrder |-> maxOrder(dbData.headlines)]]
    /\ UNCHANGED <<dbData, disk, last, issued, tableHeadlines>>

\* createHeadline: newHeadline is built and dbData.headlines.push(newHeadline)
createHeadlinePush(c) ==
    /\ calls[c].op = "createHeadline" /\ calls[c].pc = "maxOrder" /\ eventLoopFree(c)
    /\ dbData' = [dbData EXCEPT !.headlines =
                    Append(@, newHeadline(calls[c].args.headlineData, calls[c].newId,
                                          calls[c].maxOrder + 1))]
    /\ calls' = [calls EXCEPT ![c].pc = "save"]
    /\ UNCHANGED <<disk, last, issued, tableHeadlines>>

\* createHeadline: saveData() and return newId
createHeadlineSave(c) ==
    /\ calls[c].op = "createHeadline" /\ calls[c].pc = "save" /\ eventLoopFree(c)
    /\ disk' = saveData(dbData, disk, TRUE)
    /\ return(c, [op |-> "createHeadline", headlineData |-> calls[c].args.headlineData,
                  pre |-> calls[c].pre, post |-> dbData, together |-> calls[c].together,
                  res |-> Resolved(calls[c].newId)])
    /\ UNCHANGED <<dbData, issued, tableHeadlines>>

\* deleteHeadline after its timer: initialLength is taken and dbData.headlines is
\* replaced by the filtered array
deleteHeadlineFilter(c) ==
    /\ calls[c].op = "deleteHeadline" /\ AtTimer(c) /\ eventLoopFree(c)
    /\ dbData' = [dbData EXCEPT !.headlines = SelectSeq(@, LAMBDA h : h.id # calls[c].args.id)]
    /\ calls' = [calls EXCEPT ![c] =
                    [op |-> "deleteHeadline", args |-> @.args, pc |-> "filtered",
                     pre |-> dbData, initialLength |-> Len(dbData.headlines)]]
    /\ UNCHANGED <<disk, last, issued, tableHeadlines>>

\* deleteHeadline: the if on the length with its saveData(), and the return
deleteHeadlineSave(c) ==
    /\ calls[c].op = "deleteHeadline" /\ calls[c].pc = "filtered" /\ eventLoopFree(c)
    /\ disk' = IF Len(dbData.headlines) < calls[c].initialLength
               THEN saveData(dbData, disk, TRUE) ELSE disk
    /\ return(c, [op |-> "deleteHeadline", id |-> calls[c].args.id,
                  pre |-> calls[c].pre, post |-> dbData, res |-> Resolved("void")])
    /\ UNCHANGED <<dbData, issued, tableHeadlines>>

NextCreates ==
    \/ \E c \in 1..MaxCalls, call \in SomeCreateCalls :
          /\ call.op = "createHeadline" => CreatesStarted < MaxCreates
          /\ invoke(c, call)
    \/ \E c \in 1..MaxCalls : createHeadlineNewId(c)
    \/ \E c \in 1..MaxCalls : createHeadlineMaxOrder(c)
    \/ \E c \in 1..MaxCalls : createHeadlinePush(c)
    \/ \E c \in 1..MaxCalls : createHeadlineSave(c)
    \/ \E c \in 1..MaxCalls : deleteHeadlineFilter(c)
    \/ \E c \in 1..MaxCalls : deleteHeadlineSave(c)
    \/ \E c \in 1..MaxCalls : reorderHeadlinesAssign(c)
    \/ \E c \in 1..MaxCalls : reorderHeadlinesSort(c)
    \/ \E c \in 1..MaxCalls : reorderHeadlinesRenumber(c)
    \/ \E c \in 1..MaxCalls : reorderHeadlinesSave(c)

SpecCreates == InitLoaded /\ [][NextCreates]_vars

----------------------------------------------------------------------------
(* Drafts handed to the createHeadlineAction server action *)

\* drafts whose title, categories, state, priority and display lines each either
\* satisfy or violate their rule
SomeDrafts ==
    { [PlainDraft EXCEPT !.mainTitle = mainTitle, !.categories = categories,
                         !.state = state, !.priority = priority,
                         !.displayLines = displayLines] :
        mainTitle \in {<<>>, <<"N","e","w">>},
        categories \in {<<>>, <<"tech">>},
        state \in {"Draft", "Published"},
        priority \in {"Normal", "Urgent"},
        displayLines \in {0, 1, 4} }

NextValidate ==
    \/ Settle
    \/ CallerReady /\ \E data \in SomeDrafts : createHeadlineAction(data, TRUE)

SpecValidate == InitLoaded /\ [][NextValidate]_vars

----------------------------------------------------------------------------
(* Reorders of a store of five headlines *)

\* ids named in a reorder: the first, the fourth and the fifth headline, which
\* leaves two headlines between them unnamed, and an id the store never holds
ReorderIds == {"headline-1", "headline-4", "headline-5", "headline-0"}

NextReorder ==
    \/ Settle
    \/ CallerReady /\ \E orderedIds \in SeqsUpTo(ReorderIds, MaxIds) :
                          reorderHeadlines(orderedIds, TRUE)
    \/ CallerReady /\ \E orderedIds \in SeqsUpTo(ReorderIds, 1) :
                          reorderHeadlinesAction(orderedIds, TRUE)
    \/ CallerReady /\ deleteHeadline("headline-2", TRUE)

SpecReorder == InitFiveHeadlines /\ [][NextReorder]_vars

----------------------------------------------------------------------------
(* Reorders of a store loaded with any order values *)

NextAnyOrders ==
    \/ Settle
    \/ CallerReady /\ \E orderedIds \in SeqsUpTo({"headline-1", "headline-3", "headline-0"}, 2) :
                          reorderHeadlines(orderedIds, TRUE)
    \/ CallerReady /\ createHeadline(PlainDraft, TRUE)

SpecAnyOrders == InitAnyOrders /\ [][NextAnyOrders]_vars

----------------------------------------------------------------------------
(* The headline table of the dashboard page *)

\* const pageSize = 10 of DashboardPage
dashboardPageSize == 10

\* the filters DashboardPage builds from its search parameters: isBreaking is
\* always false, states holds the selected state if there is one (selectedState
\* is absent, <<>>, or one state)
dashboardFilters(selectedState) ==
    [NoFilters EXCEPT !.states = IF selectedState = <<>> THEN <<>> ELSE << <<selectedState[1]>> >>,
                      !.isBreaking = <<FALSE>>]

\* the states selected in the dashboard
SomeSelectedStates == {<<>>, <<"Approved">>, <<"Archived">>}

\* HeadlineTableWrapper fetches the page and renders HeadlineTable with it; the
\* table takes the prop as its local list (useState, and the effect on
\* [initialHeadlines])
HeadlineTableWrapper(selectedState, page) ==
    LET result == getHeadlinesResult(dbData, dashboardFilters(selectedState), page, dashboardPageSize)
    IN  /\ tableHeadlines' = result.headlines
        /\ last' = [op |-> "HeadlineTableWrapper", pre |-> dbData,
                    res |-> Resolved("rendered")]
        /\ UNCHANGED <<dbData, disk, issued, calls>>

\* newHeadlines: splice(source.index, 1) and splice(destination.index, 0, item),
\* indexes 0-based
spliced(headlines, sourceIndex, destinationIndex) ==
    LET removed == SubSeq(headlines, 1, sourceIndex)
                   \o SubSeq(headlines, sourceIndex + 2, Len(headlines))
    IN  SubSeq(removed, 1, destinationIndex) \o <<headlines[sourceIndex + 1]>>
        \o SubSeq(removed, destinationIndex + 1, Len(removed))

\* how the awaited reorderHeadlinesAction call of a drag ends: it resolves, it
\* rejects after the service ran (revalidatePath or the response failed), or it
\* rejects without the service having run (the request failed)
ActionOutcomes == {"resolved", "rejected after the service", "rejected before the service"}

\* onDragEnd(result): destination is absent when the row is dropped outside the
\* list. The local list takes the new order before the action is called; the
\* catch branch logs and shows a toast, its setHeadlines(initialHeadlines) is
\* commented out
onDragEnd(sourceIndex, destination, outcome, writeOk) ==
    LET returnsEarly == destination = <<>> \/ destination[1] = sourceIndex
        newHeadlines == spliced(tableHeadlines, sourceIndex, destination[1])
        orderedIdsOnPage == [i \in 1..Len(newHeadlines) |-> newHeadlines[i].id]
        db == [dbData EXCEPT !.headlines = reordered(@, orderedIdsOnPage)]
        served == outcome # "rejected before the service"
        done(res) == [op |-> "onDragEnd", shown |-> tableHeadlines, pre |-> dbData,
                      sourceIndex |-> sourceIndex, destination |-> destination, res |-> res]
    IN  /\ sourceIndex \in 0..(Len(tableHeadlines) - 1)
        /\ destination # <<>> => destination[1] \in 0..(Len(tableHeadlines) - 1)
        /\ IF returnsEarly
           THEN /\ UNCHANGED <<dbData, disk, tableHeadlines>>
                /\ last' = done(Resolved("returned"))
           ELSE /\ tableHeadlines' = newHeadlines
                /\ dbData' = IF served THEN db ELSE dbData
                /\ disk' = IF served THEN saveData(db, disk, writeOk) ELSE disk
                /\ last' = done(IF outcome = "resolved"
                                THEN Resolved("reorderSuccess")
                                ELSE Thrown("Failed to reorder headlines."))
        /\ UNCHANGED <<issued, calls>>

NextTable ==
    \/ Settle
    \/ CallerReady /\ \E selectedState \in SomeSelectedStates, page \in 1..2 :
                          HeadlineTableWrapper(selectedState, page)
    \/ CallerReady /\ \E sourceIndex \in 0..2, destination \in {<<>>} \cup {<<i>> : i \in 0..2},
                         outcome \in ActionOutcomes :
                          onDragEnd(sourceIndex, destination, outcome, TRUE)

SpecTable == InitFourHeadlines /\ [][NextTable]_vars

----------------------------------------------------------------------------
(* Queries on the generated store *)

\* ids filters: none, an empty list, and a list naming two stored headlines (the
\* later one first) and an id the store never holds
SomeIdFilters ==
    {<<>>, << <<>> >>, << <<"headline-3", "headline-1", "headline-0">> >>}

SomeStateFilters == {<<>>, << <<>> >>, << <<"Approved", "Archived">> >>}

\* category filters: none, an initial category, no category
SomeCategoryFilters == {<<>>, <<"tech">>, <<"category-0">>}

\* search filters: none, the empty string, and a term in a case of its own
SomeSearchFilters == {<<>>, << <<>> >>, << <<"b","R","e","A","k">> >>}

SomeBreakingFilters == {<<>>, <<TRUE>>, <<FALSE>>}

SomeFilters ==
    [ids : SomeIdFilters, states : SomeStateFilters, category : SomeCategoryFilters,
     search : SomeSearchFilters, isBreaking : SomeBreakingFilters]

\* page numbers: invalid, pagination off, the first, the last and one past the end
SomePages == {-1, 0, 1, 3, 4}

\* page sizes: invalid, pagination off, the default
SomePageSizes == {-1, 0, 10}

NextQuery ==
    \/ Settle
    \/ CallerReady /\ \E filters \in SomeFilters, page \in SomePages, pageSize \in SomePageSizes :
                          getHeadlines(filters, page, pageSize)
    \/ CallerReady /\ createHeadline(PlainDraft, TRUE)
    \/ CallerReady /\ deleteCategory("tech", TRUE)

SpecQuery == InitGenerated /\ [][NextQuery]_vars

----------------------------------------------------------------------------
(* Vocabulary of the properties *)

\* the ids of a headline array, in array order
IdsOf(headlines) == [i \in 1..Len(headlines) |-> headlines[i].id]

\* no element occurs twice
Distinct(s) == \A i, j \in 1..Len(s) : i # j => s[i] # s[j]

\* the elements of s that are in S, in the order of s
Restrict(s, S) == SelectSeq(s, LAMBDA x : x \in S)

\* the headline of the store with this id
HeadlineOf(db, id) == db.headlines[CHOOSE i \in 1..Len(db.headlines) : db.headlines[i].id = id]

\* the global order: the ids an unpaginated getHeadlines({}, 0, 0) returns
GlobalOrder(db) == IdsOf(getHeadlinesResult(db, NoFilters, 0, 0).headlines)

----------------------------------------------------------------------------
(* Ordering properties *)

\* C1: after any sequence of createHeadline, deleteHeadline, deleteMultipleHeadlines
\* and reorderHeadlines calls on the loaded store, no two headlines of the store
\* have the same order value.
C1_TotalOrder ==
    \A i, j \in 1..Len(dbData.headlines) :
        i # j => dbData.headlines[i].order # dbData.headlines[j].order

\* a createHeadline completed on a store whose order values had a gap (a headline
\* had been deleted) and that held at least two headlines
C1_Witness ==
    /\ last.op = "createHeadline"
    /\ Len(last.pre.headlines) >= 2
    /\ \E i \in 1..Len(last.pre.headlines) : last.pre.headlines[i].order # i - 1

\* C2: after reorderHeadlines(orderedIds) with pairwise distinct ids, the stored
\* headlines named in orderedIds appear in the global order in the relative order
\* of orderedIds; when orderedIds is a permutation of all headline ids, the global
\* order is orderedIds.
C2_ReorderFollowsCaller ==
    (last.op = "reorderHeadlines" /\ Distinct(last.orderedIds)) =>
        /\ Restrict(GlobalOrder(dbData), Range(last.orderedIds))
             = Restrict(last.orderedIds, HeadlineIds(last.pre))
        /\ Range(last.orderedIds) = HeadlineIds(last.pre)
             => GlobalOrder(dbData) = last.orderedIds

\* a reorder whose id list is a permutation of all three stored ids and moved the
\* last headline to the front
C2_Witness ==
    /\ last.op = "reorderHeadlines"
    /\ Distinct(last.orderedIds)
    /\ Len(last.orderedIds) = 3
    /\ Range(last.orderedIds) = HeadlineIds(last.pre)
    /\ last.orderedIds[1] = GlobalOrder(last.pre)[3]
    /\ GlobalOrder(dbData) = last.orderedIds

\* C3: after reorderHeadlines(orderedIds), two headlines that are both not named in
\* orderedIds compare by order as they did before the call.
C3_OthersKeepRelativeOrder ==
    last.op = "reorderHeadlines" =>
        \A a, b \in HeadlineIds(last.pre) \ Range(last.orderedIds) :
            /\ a \in HeadlineIds(dbData) /\ b \in HeadlineIds(dbData)
            /\ (HeadlineOf(last.pre, a).order < HeadlineOf(last.pre, b).order)
                 <=> (HeadlineOf(dbData, a).order < HeadlineOf(dbData, b).order)

\* a reorder that named two stored headlines, changed the global order and left
\* two headlines unnamed
C3_Witness ==
    /\ last.op = "reorderHeadlines"
    /\ Cardinality(HeadlineIds(last.pre) \ Range(last.orderedIds)) >= 2
    /\ Cardinality(HeadlineIds(last.pre) \cap Range(last.orderedIds)) >= 2
    /\ GlobalOrder(dbData) # GlobalOrder(last.pre)

----------------------------------------------------------------------------
(* Category properties *)

\* C4: in every reachable state, every id in a headline's categories list is the
\* id of a category that exists.  (createHeadline and updateHeadline do not keep this.)
C4_NoDanglingReference ==
    \A i \in 1..Len(dbData.headlines) :
        Range(dbData.headlines[i].categories) \subseteq CategoryIds(dbData)

\* C5: after deleteCategory(C) of an existing category, no headline lists C, every
\* headline keeps its other category ids (in their order) and every other field,
\* and the other categories are unchanged.
C5_CascadingDelete ==
    (last.op = "deleteCategory" /\ last.id \in CategoryIds(last.pre)) =>
        /\ Len(dbData.headlines) = Len(last.pre.headlines)
        /\ \A i \in 1..Len(dbData.headlines) :
              LET before == last.pre.headlines[i]
                  after == dbData.headlines[i]
              IN  /\ ~Has(after.categories, last.id)
                  /\ after.categories
                       = Restrict(before.categories, Range(before.categories) \ {last.id})
                  /\ DOMAIN after = DOMAIN before
                  /\ \A f \in DOMAIN before \ {"categories"} : after[f] = before[f]
        /\ last.id \notin CategoryIds(dbData)
        /\ dbData.categories
             = SelectSeq(last.pre.categories, LAMBDA cat : cat.id # last.id)

\* a deleteCategory of a category that two headlines listed, one of them beside
\* another category
C5_Witness ==
    /\ last.op = "deleteCategory"
    /\ last.id \in CategoryIds(last.pre)
    /\ Cardinality({i \in 1..Len(last.pre.headlines) :
                       Has(last.pre.headlines[i].categories, last.id)}) >= 2
    /\ \E i \in 1..Len(last.pre.headlines) :
          /\ Has(last.pre.headlines[i].categories, last.id)
          /\ Len(last.pre.headlines[i].categories) >= 2
          /\ dbData.headlines[i].categories # <<>>

\* the pairs of a letter in its two cases
CasePairs ==
    {<<Upper[k], LowerOf[k]>> : k \in 1..Len(Upper)}
    \cup {<<LowerOf[k], Upper[k]>> : k \in 1..Len(Upper)}

\* the same letter in either case, or the same character
SameIgnoringCase(c, d) == c = d \/ <<c, d>> \in CasePairs

\* the two strings are equal case-insensitively
EqualIgnoringCase(a, b) ==
    Len(a) = Len(b) /\ \A i \in 1..Len(a) : SameIgnoringCase(a[i], b[i])

\* t is s without its leading and trailing blanks
IsTrimOf(t, s) ==
    /\ t = <<>> \/ (t[1] # " " /\ t[Len(t)] # " ")
    /\ \E k \in 0..(Len(s) - Len(t)) :
          /\ SubSeq(s, k + 1, k + Len(t)) = t
          /\ \A i \in (1..k) \cup ((k + Len(t) + 1)..Len(s)) : s[i] = " "

\* the typed name, trimmed, equals the name of a category of db case-insensitively
MatchesExistingName(db, typed) ==
    \E i \in 1..Len(db.categories) :
        \E k \in 0..Len(typed), n \in 0..Len(typed) :
            /\ k + n <= Len(typed)
            /\ IsTrimOf(SubSeq(typed, k + 1, k + n), typed)
            /\ EqualIgnoringCase(db.categories[i].name, SubSeq(typed, k + 1, k + n))

\* C7: no two categories have names equal case-insensitively, and a createCategory
\* whose trimmed name matches an existing name case-insensitively fails as a
\* duplicate and leaves the category list and the next-category-id counter as
\* they were.
C7_UniqueCategoryNames ==
    /\ \A i, j \in 1..Len(dbData.categories) :
          i # j => ~EqualIgnoringCase(dbData.categories[i].name, dbData.categories[j].name)
    /\ (last.op = "createCategory" /\ MatchesExistingName(last.pre, last.name)) =>
          /\ last.res = Thrown("already exists")
          /\ dbData.categories = last.pre.categories
          /\ dbData.nextCategoryId = last.pre.nextCategoryId

\* a createCategory rejected because its name, once trimmed, differs only in case
\* from the name of a category that an earlier createCategory made
C7_Witness ==
    /\ last.op = "createCategory"
    /\ last.res = Thrown("already exists")
    /\ last.name # trim(last.name)
    /\ \E i \in 1..Len(last.pre.categories) :
          /\ last.pre.categories[i].id = "category-7"
          /\ last.pre.categories[i].name # trim(last.name)
          /\ EqualIgnoringCase(last.pre.categories[i].name, trim(last.name))

----------------------------------------------------------------------------
(* Persistence properties *)

\* C6: the id createHeadline returns was never held by a headline of the store
\* before, deleted ones included, also across restarts that reload db.json.
\* (The code does not keep this when a write to db.json failed: see the trace.)
C6_IdsNeverReused ==
    last.op = "createHeadline" => last.res.value \notin last.issued

----------------------------------------------------------------------------
(* Query properties *)

\* the stored headlines at the positions in I, as getHeadlines hands them out, in
\* ascending order of the order field: the k-th is the one with k - 1 before it
Listed(db, I) ==
    LET before == [i \in I |->
                      Cardinality({j \in I : db.headlines[j].order < db.headlines[i].order})]
    IN  [k \in 1..Cardinality(I) |->
            parseHeadlineDates(db.headlines[CHOOSE i \in I : before[i] = k - 1])]

\* filters.ids is absent or empty
NoIds(filters) == filters.ids = <<>> \/ filters.ids[1] = <<>>

\* term occurs in s, letters compared without regard to case
ContainsIgnoringCase(s, term) ==
    \E k \in 0..(Len(s) - Len(term)) :
        \A i \in 1..Len(term) : SameIgnoringCase(s[k + i], term[i])

\* the headline satisfies every predicate the filters supply (an empty states
\* list, an empty category and an empty search term supply none)
Satisfies(h, filters) ==
    /\ (filters.states # <<>> /\ filters.states[1] # <<>>)
          => h.state \in Range(filters.states[1])
    /\ (filters.category # <<>> /\ filters.category[1] # "")
          => filters.category[1] \in Range(h.categories)
    /\ (filters.search # <<>> /\ filters.search[1] # <<>>)
          => \/ ContainsIgnoringCase(h.mainTitle, filters.search[1])
             \/ ContainsIgnoringCase(h.subtitle, filters.search[1])
    /\ filters.isBreaking # <<>> => h.isBreaking = filters.isBreaking[1]

\* the positions of the stored headlines that satisfy the filters
Matching(db, filters) ==
    {i \in 1..Len(db.headlines) : Satisfies(db.headlines[i], filters)}

\* the positions of the stored headlines with an id in ids
Named(db, ids) ==
    {i \in 1..Len(db.headlines) : db.headlines[i].id \in Range(ids)}

\* C8: with a non-empty filters.ids, getHeadlines returns exactly the stored
\* headlines whose id is in ids, sorted by order, whatever states, category,
\* search, isBreaking, page and pageSize are.
C8_IdsTakePrecedence ==
    (last.op = "getHeadlines" /\ ~NoIds(last.filters)) =>
        /\ last.res.ok
        /\ last.res.value.headlines
             = Listed(dbData, Named(dbData, last.filters.ids[1]))

\* a query by ids that also gave states, a category, a search term, isBreaking
\* and a page past the end, and returned a headline in none of the given states
C8_Witness ==
    /\ last.op = "getHeadlines"
    /\ ~NoIds(last.filters)
    /\ last.filters.states # <<>> /\ last.filters.states[1] # <<>>
    /\ last.filters.category # <<>> /\ last.filters.search # <<>>
    /\ last.filters.isBreaking # <<>>
    /\ last.page = 4 /\ last.pageSize = 10
    /\ Len(last.res.value.headlines) = 2
    /\ \E i \in 1..Len(last.res.value.headlines) :
          last.res.value.headlines[i].state \notin Range(last.filters.states[1])

\* C9, the filters: without ids, the unpaginated result is exactly the stored
\* headlines that satisfy every supplied predicate, in ascending order.
C9_FiltersConjoined ==
    (last.op = "getHeadlines" /\ NoIds(last.filters)
       /\ (last.page <= 0 \/ last.pageSize <= 0)) =>
        /\ last.res.ok
        /\ last.res.value.headlines = Listed(dbData, Matching(dbData, last.filters))

\* C9, the unknown category: a category id that is not the id of a category
\* yields zero matches.
C9_UnknownCategoryMatchesNothing ==
    (last.op = "getHeadlines" /\ NoIds(last.filters)
       /\ last.filters.category # <<>> /\ last.filters.category[1] # ""
       /\ last.filters.category[1] \notin CategoryIds(dbData)) =>
        /\ last.res.ok
        /\ last.res.value.headlines = <<>>
        /\ last.res.value.totalCount = 0

\* C9: without ids, the unpaginated result of getHeadlines is exactly the stored
\* headlines that satisfy every supplied predicate, in ascending order of the
\* order field, and an unknown category id yields zero matches and no error.
\* (The second part fails on a headline that lists a category that does not
\* exist, which createHeadline and updateHeadline let in: see C4.)
C9_FilteredResult ==
    C9_FiltersConjoined /\ C9_UnknownCategoryMatchesNothing

\* C10: without ids, page > 0 and pageSize > 0 give the slice
\* [(page-1)*pageSize, page*pageSize) of the filtered, sorted list, any other page
\* or pageSize gives the whole list, and totalCount is the size of the filtered
\* list; of 25 matches in pages of 10, page 3 has 5 items and page 4 none.
C10_Pagination ==
    (last.op = "getHeadlines" /\ NoIds(last.filters)) =>
        LET all == Listed(dbData, Matching(dbData, last.filters))
            from == (last.page - 1) * last.pageSize
            upto == last.page * last.pageSize
            got == last.res.value.headlines
        IN  /\ last.res.ok
            /\ last.res.value.totalCount = Len(all)
            /\ (last.page > 0 /\ last.pageSize > 0) =>
                  /\ Len(got) = Cardinality({i \in 1..Len(all) : from < i /\ i <= upto})
                  /\ \A k \in 1..Len(got) : got[k] = all[from + k]
            /\ (last.page <= 0 \/ last.pageSize <= 0) => got = all
            /\ (Len(all) = 25 /\ last.pageSize = 10 /\ last.page = 3) => Len(got) = 5
            /\ (Len(all) = 25 /\ last.pageSize = 10 /\ last.page = 4) => Len(got) = 0

\* page 3 of the 25 generated headlines in pages of 10: the last five
C10_Witness ==
    /\ last.op = "getHeadlines"
    /\ last.filters = NoFilters
    /\ last.page = 3 /\ last.pageSize = 10
    /\ last.res.value.totalCount = 25
    /\ IdsOf(last.res.value.headlines)
         = <<"headline-21", "headline-22", "headline-23", "headline-24", "headline-25">>

----------------------------------------------------------------------------
(* Persistence properties *)

\* the service functions that change the store
Mutations ==
    {"createCategory", "updateCategory", "deleteCategory", "createHeadline",
     "updateHeadline", "reorderHeadlines", "deleteHeadline",
     "deleteMultipleHeadlines", "updateMultipleHeadlineStates"}

\* C11: a mutating call that changed the store and whose write to db.json did not
\* take place (the file does not hold the store the call left) does not resolve:
\* its caller receives a failure.
C11_SuccessMeansWritten ==
    (/\ last.op \in Mutations
     /\ dbData # last.pre
     /\ disk # <<JSONstringify(dbData)>>) => ~last.res.ok

\* C12: in every state between calls the in-memory store equals what db.json
\* holds, so a mutation whose write failed has been rolled back.
C12_MemoryEqualsPersisted ==
    disk # <<>> => dbData = JSONparse(disk[1])


----------------------------------------------------------------------------
(* Delete and bulk properties *)

\* C14: deleteHeadline(id) and deleteCategory(id) with an id that is not in the
\* store resolve and leave the whole store (headlines, categories and both id
\* counters) as it was, so a second delete of the same id changes nothing.
C14_IdempotentDelete ==
    /\ (last.op = "deleteHeadline" /\ last.id \notin HeadlineIds(last.pre)) =>
          last.res.ok /\ dbData = last.pre
    /\ (last.op = "deleteCategory" /\ last.id \notin CategoryIds(last.pre)) =>
          last.res.ok /\ dbData = last.pre

\* the second deleteHeadline of a headline the loaded store held
C14_Witness ==
    /\ last.op = "deleteHeadline"
    /\ last.id \in HeadlineIds(PersistedDb)
    /\ last.id \notin HeadlineIds(last.pre)
    /\ last.res.ok


\* the call resolved with the value v (a value of any kind)
ResolvedWith(res, v) == res.ok /\ ToString(res.value) = ToString(v)

\* the number of stored headlines whose id occurs in ids, however often it occurs
CountNamed(db, ids) == Cardinality(HeadlineIds(db) \cap Range(ids))

\* C15, the effect: deleteMultipleHeadlines(ids) removes exactly the stored
\* headlines whose id occurs in ids, skips the ids that are not in the store and
\* leaves the other headlines, the categories and the counters unchanged.
C15_BulkDeleteEffect ==
    last.op = "deleteMultipleHeadlines" =>
        /\ last.res.ok
        /\ dbData.headlines
             = SelectSeq(last.pre.headlines, LAMBDA h : h.id \notin Range(last.ids))
        /\ dbData = [last.pre EXCEPT !.headlines = dbData.headlines]
        /\ Len(last.pre.headlines) - Len(dbData.headlines) = CountNamed(last.pre, last.ids)

\* C15: deleteMultipleHeadlines(ids) has the effect above and returns the number
\* of headlines removed, an id that occurs several times in ids counted once.
C15_BulkDeleteCounts ==
    /\ C15_BulkDeleteEffect
    /\ last.op = "deleteMultipleHeadlines" =>
          ResolvedWith(last.res, CountNamed(last.pre, last.ids))

\* the headline array with the state of the named headlines set
WithState(headlines, ids, state) ==
    [i \in 1..Len(headlines) |->
        IF headlines[i].id \in Range(ids)
        THEN [headlines[i] EXCEPT !.state = state] ELSE headlines[i]]

\* C16, the effect: updateMultipleHeadlineStates(ids, newState) sets the state of
\* every stored headline whose id is in ids and changes nothing else.
C16_BulkStateEffect ==
    last.op = "updateMultipleHeadlineStates" =>
        /\ last.res.ok
        /\ dbData = [last.pre EXCEPT
                        !.headlines = WithState(@, last.ids, last.state)]

\* C16: updateMultipleHeadlineStates(ids, newState) has the effect above and
\* reports the number of stored headlines whose id is in ids, those already in
\* newState included.
C16_BulkStateCounts ==
    /\ C16_BulkStateEffect
    /\ last.op = "updateMultipleHeadlineStates" =>
          ResolvedWith(last.res, CountNamed(last.pre, last.ids))


----------------------------------------------------------------------------
(* createHeadline and updateHeadline properties *)

\* the order values of a headline array
OrderValues(headlines) == {headlines[i].order : i \in 1..Len(headlines)}

\* the greatest order value of a store that is not empty
GreatestOrder(headlines) ==
    CHOOSE m \in OrderValues(headlines) : \A o \in OrderValues(headlines) : o <= m

\* C17: createHeadline gives the new headline the order one greater than the
\* greatest order in the store, 0 in an empty store; the new headline is the last
\* item of the unpaginated getHeadlines({}, 0, 0), after the headlines that were
\* there in their old sequence, and no existing headline's order changes.
C17_CreatedLast ==
    last.op = "createHeadline" =>
        LET created == HeadlineOf(dbData, last.res.value)
        IN  /\ last.res.ok
            /\ created.order = IF last.pre.headlines = <<>> THEN 0
                               ELSE GreatestOrder(last.pre.headlines) + 1
            /\ GlobalOrder(dbData) = Append(GlobalOrder(last.pre), last.res.value)
            /\ Len(dbData.headlines) = Len(last.pre.headlines) + 1
            /\ \A i \in 1..Len(last.pre.headlines) :
                  dbData.headlines[i] = last.pre.headlines[i]

\* a createHeadline on a store that deletes have emptied
C17_Witness ==
    /\ last.op = "createHeadline"
    /\ last.pre.headlines = <<>>
    /\ HeadlineOf(dbData, last.res.value).order = 0


\* the calls that update one headline
UpdateCalls == {"updateHeadline", "updateHeadlineAction"}

\* the partial update the caller of the last call supplied
Supplied == IF last.op = "updateHeadline" THEN last.headlineUpdate ELSE last.data

\* the field of the stored headline holds the value the caller supplied for it;
\* a publish date is stored as the ISO string of the instant supplied
HoldsSupplied(headline, f) ==
    IF f = "publishDate"
    THEN headline[f].kind = "string" /\ headline[f].t = Supplied[f].t
    ELSE headline[f] = Supplied[f]

C19_ServiceNotFound ==
    (last.op = "updateHeadline" /\ last.id \notin HeadlineIds(last.pre)) =>
        last.res = Thrown("not found") /\ dbData = last.pre

\* C19: an update of an id that is not in the store, through updateHeadline or
\* through updateHeadlineAction, never reports success, whatever fields are
\* supplied (none included), and leaves the store unchanged.
C19_AbsentIdNeverOk ==
    (last.op \in UpdateCalls /\ last.id \notin HeadlineIds(last.pre)) =>
        ~last.res.ok /\ dbData = last.pre


----------------------------------------------------------------------------
(* Rename properties *)

\* the typed name without its leading and trailing blanks
TrimmedOf(typed) ==
    CHOOSE t \in {SubSeq(typed, p[1] + 1, p[1] + p[2]) :
                    p \in {q \in (0..Len(typed)) \X (0..Len(typed)) :
                              q[1] + q[2] <= Len(typed)}} :
        IsTrimOf(t, typed)

\* a category of db other than id has the typed name, trimmed, case-insensitively
OtherHasName(db, id, typed) ==
    \E i \in 1..Len(db.categories) :
        /\ db.categories[i].id # id
        /\ EqualIgnoringCase(db.categories[i].name, TrimmedOf(typed))

\* C20: updateCategory(id, name) throws the not-found error when no category has
\* the id, whatever the name; throws the already-exists error when a category
\* with another id has the trimmed name case-insensitively; and otherwise (the
\* category itself may have that name) resolves, giving the category the trimmed
\* name.  Both failures leave every category and headline unchanged, and they
\* are different errors.
C20_RenameOutcomes ==
    last.op = "updateCategory" =>
        IF last.id \notin CategoryIds(last.pre)
        THEN last.res = Thrown("not found") /\ dbData = last.pre
        ELSE IF OtherHasName(last.pre, last.id, last.name)
        THEN /\ last.res = Thrown("already exists")
             /\ last.res # Thrown("not found")
             /\ dbData = last.pre
        ELSE /\ last.res.ok
             /\ dbData = [last.pre EXCEPT !.categories =
                   [i \in 1..Len(@) |->
                       IF @[i].id = last.id
                       THEN [@[i] EXCEPT !.name = TrimmedOf(last.name)] ELSE @[i]]]

\* an updateCategory that resolved although the category's own name already was
\* the new name in another case
C20_Witness ==
    /\ last.op = "updateCategory"
    /\ last.res.ok
    /\ \E i \in 1..Len(last.pre.categories) :
          /\ last.pre.categories[i].id = last.id
          /\ EqualIgnoringCase(last.pre.categories[i].name, TrimmedOf(last.name))
          /\ dbData.categories[i].name # last.pre.categories[i].name


----------------------------------------------------------------------------
(* Concurrency properties *)

\* the store the last completed write to db.json committed
Committed == JSONparse(disk[1])

\* the store a whole deleteCategory(id) makes of db
AfterDeleteCategory(db, id) ==
    [db EXCEPT
       !.categories = SelectSeq(@, LAMBDA cat : cat.id # id),
       !.headlines = [i \in 1..Len(@) |->
                        [@[i] EXCEPT !.categories = SelectSeq(@, LAMBDA catId : catId # id)]]]

\* C13: however the calls in flight interleave, at most one call is inside its
\* body at a time; a body starts from the committed store and, between bodies,
\* the store is the committed one, so each mutation runs from read to persist
\* with no step of another in between and has the effect of the whole mutation
\* on the store it started from; and every getHeadlines and getCategories result
\* is the result on a committed store, never on one a mutation has partly
\* changed (a category removed but still listed by a headline, orders assigned
\* but not yet renumbered).
C13_SerializedSnapshots ==
    /\ Cardinality({c \in 1..MaxCalls : InBody(c)}) <= 1
    /\ (\A c \in 1..MaxCalls : ~InBody(c)) => dbData = Committed
    /\ \A c \in 1..MaxCalls : InBody(c) => calls[c].pre = Committed
    /\ last.op = "getHeadlines" =>
          last.res = Resolved(getHeadlinesResult(last.committed, last.filters,
                                                 last.page, last.pageSize))
    /\ last.op = "getCategories" => last.res = Resolved(last.committed.categories)
    /\ (last.op = "deleteCategory" /\ "post" \in DOMAIN last) =>
          last.post = AfterDeleteCategory(last.pre, last.id)
    /\ (last.op = "reorderHeadlines" /\ "post" \in DOMAIN last) =>
          /\ last.post = [last.pre EXCEPT !.headlines = last.post.headlines]
          /\ Distinct(IdsOf(last.post.headlines))
          /\ \A i \in 1..Len(last.post.headlines) : last.post.headlines[i].order = i - 1
          /\ Restrict(IdsOf(last.post.headlines), Range(last.orderedIds))
               = last.orderedIds

\* a deleteCategory that removed a category from the headlines returns while a
\* reorderHeadlines called before that return is waiting for its timer
C13_Witness ==
    /\ last.op = "deleteCategory"
    /\ "post" \in DOMAIN last
    /\ last.post.headlines # last.pre.headlines
    /\ \E c \in 1..MaxCalls : calls[c].op = "reorderHeadlines" /\ AtTimer(c)


----------------------------------------------------------------------------
(* Validation properties *)

\* the fields of a draft that violate their validation rule
Offending(data) ==
    {f \in {"mainTitle"} : Len(data.mainTitle) = 0}
    \cup {f \in {"categories"} : Len(data.categories) = 0}
    \cup {f \in {"state"} : data.state \notin {"Draft", "In Review", "Approved", "Archived"}}
    \cup {f \in {"priority"} : data.priority \notin {"High", "Normal"}}
    \cup {f \in {"displayLines"} : data.displayLines \notin {1, 2, 3}}

\* the message is the one the rule of field f gives
MessageOfRule(message, f) ==
    CASE f = "mainTitle" -> message = "Main title cannot be empty"
      [] f = "categories" -> message = "At least one category is required"
      [] f = "state" ->
           message = "Invalid enum value. Expected 'Draft' | 'In Review' | 'Approved' | 'Archived'"
      [] f = "priority" -> message = "Invalid enum value. Expected 'High' | 'Normal'"
      [] f = "displayLines" ->
           message \in {"Number must be greater than or equal to 1",
                        "Number must be less than or equal to 3"}

\* the fields the text of a message names
FieldsNamedIn(message) ==
    {f \in {"mainTitle"} : message = "Main title cannot be empty"}
    \cup {f \in {"categories"} : message = "At least one category is required"}

\* the fields an error lists: the keys of its field errors if it carries them,
\* and the fields its messages name
FieldsListed(error) ==
    (IF "fieldErrors" \in DOMAIN error THEN DOMAIN error.fieldErrors ELSE {})
    \cup UNION {FieldsNamedIn(error.errorMessages[k]) : k \in 1..Len(error.errorMessages)}

\* C21, the reasons: createHeadlineAction with a draft that violates a validation
\* rule is rejected, the error has the message of the rule of every offending
\* field, all of them and not only the first, and no other message, and the
\* headlines and the next-id counter are unchanged; a draft that violates no
\* rule is created.
C21_EveryViolationReported ==
    last.op = "createHeadlineAction" =>
        IF Offending(last.data) = {}
        THEN last.res.ok
        ELSE /\ ~last.res.ok
             /\ last.res.error.message = "Invalid headline data"
             /\ \A f \in Offending(last.data) :
                   \E k \in 1..Len(last.res.error.errorMessages) :
                       MessageOfRule(last.res.error.errorMessages[k], f)
             /\ Len(last.res.error.errorMessages) = Cardinality(Offending(last.data))
             /\ dbData = last.pre

\* C21: createHeadlineAction with a draft that violates a validation rule (empty
\* mainTitle, no category, state or priority outside its enumeration,
\* displayLines outside 1..3) is rejected with a validation error that lists
\* every offending field, and the store is unchanged.
C21_ListsOffendingFields ==
    (last.op = "createHeadlineAction" /\ Offending(last.data) # {}) =>
        /\ ~last.res.ok
        /\ Offending(last.data) \subseteq FieldsListed(last.res.error)
        /\ dbData = last.pre

----------------------------------------------------------------------------
(* Reorder properties *)

\* the calls that reorder, through the service or through the server action
ReorderCalls == {"reorderHeadlines", "reorderHeadlinesAction"}

\* the ids of a sequence that are ids of stored headlines, in their sequence
Present(db, ids) == SelectSeq(ids, LAMBDA id : id \in HeadlineIds(db))

\* no two headlines of the store have the same order
UniqueOrders(db) ==
    \A i, j \in 1..Len(db.headlines) :
        i # j => db.headlines[i].order # db.headlines[j].order

\* C22: the store after reorderHeadlines(orderedIds) is the store after
\* reorderHeadlines of the same sequence without the ids that are not in the
\* store.
C22_AbsentIdsIgnored ==
    last.op = "reorderHeadlines" =>
        dbData.headlines
          = reordered(last.pre.headlines, Present(last.pre, last.orderedIds))

\* C23, through the action: reorderHeadlinesAction([]) resolves and leaves the
\* whole store as it was.
C23_EmptyActionIsNoOp ==
    (last.op = "reorderHeadlinesAction" /\ last.orderedIds = <<>>) =>
        last.res.ok /\ dbData = last.pre

\* C23: a reorder with an empty id sequence resolves and leaves every headline's
\* order value and every other part of the store exactly as before, also when
\* the stored order values have gaps.
C23_EmptyIsNoOp ==
    (last.op \in ReorderCalls /\ last.orderedIds = <<>>) =>
        last.res.ok /\ dbData = last.pre


\* C24: from any store, one whose order values have gaps or repeat included,
\* after reorderHeadlines the order values of the n stored headlines are exactly
\* 0..n-1, each used once, and the stored array ascends by order.
C24_SelfHealing ==
    last.op = "reorderHeadlines" =>
        /\ OrderValues(dbData.headlines) = 0..(Len(dbData.headlines) - 1)
        /\ UniqueOrders(dbData)
        /\ \A i \in 1..(Len(dbData.headlines) - 1) :
              dbData.headlines[i].order < dbData.headlines[i + 1].order

\* a reorderHeadlines on a store in which an order value repeated, another was
\* missing and the array did not ascend
C24_Witness ==
    /\ last.op = "reorderHeadlines"
    /\ ~UniqueOrders(last.pre)
    /\ OrderValues(last.pre.headlines) # 0..(Len(last.pre.headlines) - 1)
    /\ \E i \in 1..(Len(last.pre.headlines) - 1) :
          last.pre.headlines[i].order > last.pre.headlines[i + 1].order
    /\ last.orderedIds # <<>>


\* the position of an id in a sequence of distinct ids
PositionIn(ids, id) == CHOOSE i \in 1..Len(ids) : ids[i] = id

\* the last call was a reorderHeadlines of distinct ids, all of them in the
\* store, on a store with unique order values
ReorderedDistinctPresent ==
    /\ last.op = "reorderHeadlines"
    /\ last.orderedIds # <<>>
    /\ Distinct(last.orderedIds)
    /\ Range(last.orderedIds) \subseteq HeadlineIds(last.pre)
    /\ UniqueOrders(last.pre)

\* C25: after reorderHeadlines(orderedIds) on a store with unique order values
\* the named headlines occupy consecutive positions of the global order, from
\* the position that the named headline of smallest order had before the call,
\* with no other headline between two of them.
C25_GroupContiguous ==
    ReorderedDistinctPresent =>
        LET named == Range(last.orderedIds)
            first == CHOOSE id \in named :
                        \A other \in named :
                            HeadlineOf(last.pre, id).order <= HeadlineOf(last.pre, other).order
            start == PositionIn(GlobalOrder(last.pre), first)
        IN  {PositionIn(GlobalOrder(dbData), id) : id \in named}
              = start..(start + Cardinality(named) - 1)


\* C27: on a store with unique order values, reorderHeadlines(orderedIds) with
\* distinct ids that are all stored, done a second time straight after the
\* first, leaves the store as the first call left it.
C27_ReorderIdempotent ==
    ReorderedDistinctPresent =>
        reordered(dbData.headlines, last.orderedIds) = dbData.headlines


\* a headline without its order
WithoutOrder(headline) == [f \in DOMAIN headline \ {"order"} |-> headline[f]]

\* C30: reorderHeadlines(orderedIds), whatever the sequence holds, leaves the
\* set of headline ids and the number of headlines as they were, changes no
\* field of a headline other than order, and leaves categories and both id
\* counters untouched.
C30_ReorderLosesNothing ==
    last.op = "reorderHeadlines" =>
        /\ HeadlineIds(dbData) = HeadlineIds(last.pre)
        /\ Len(dbData.headlines) = Len(last.pre.headlines)
        /\ \A id \in HeadlineIds(last.pre) :
              WithoutOrder(HeadlineOf(dbData, id)) = WithoutOrder(HeadlineOf(last.pre, id))
        /\ dbData = [last.pre EXCEPT !.headlines = dbData.headlines]

\* a reorderHeadlines whose sequence repeated an id and named an id that is not
\* stored, and that moved headlines
C30_Witness ==
    /\ last.op = "reorderHeadlines"
    /\ ~Distinct(last.orderedIds)
    /\ ~(Range(last.orderedIds) \subseteq HeadlineIds(last.pre))
    /\ IdsOf(dbData.headlines) # IdsOf(last.pre.headlines)


\* filters without ids: none, and two state filters that leave other headlines
\* between the matching ones
PageFilters ==
    {NoFilters,
     [NoFilters EXCEPT !.states = << <<"Draft", "Archived">> >>],
     [NoFilters EXCEPT !.states = << <<"In Review", "Archived", "Draft">> >>]}

\* page numbers and page sizes of the paginated queries
PageNumbers == 1..4
PageSizes == 1..3

\* the ids getHeadlines(filters, page, pageSize) returns on a store, in sequence
PageIds(db, filters, page, pageSize) ==
    IdsOf(getHeadlinesResult(db, filters, page, pageSize).headlines)

\* a sequence is a permutation of another sequence of distinct elements
IsPermutationOf(s, t) ==
    Len(s) = Len(t) /\ Distinct(s) /\ Range(s) = Range(t)

\* C28: when orderedIds is a permutation of the ids that getHeadlines(filters,
\* page, pageSize) returns, for filters without ids and page > 0, pageSize > 0,
\* then after reorderHeadlines(orderedIds) the same query returns exactly
\* orderedIds in that sequence, and every other page of the same filters and
\* page size returns the ids it returned before, in the same sequence.
C28_PageStable ==
    last.op = "reorderHeadlines" =>
        \A filters \in PageFilters, page \in PageNumbers, pageSize \in PageSizes :
            IsPermutationOf(last.orderedIds, PageIds(last.pre, filters, page, pageSize)) =>
                /\ PageIds(dbData, filters, page, pageSize) = last.orderedIds
                /\ \A other \in PageNumbers \ {page} :
                      PageIds(dbData, filters, other, pageSize)
                        = PageIds(last.pre, filters, other, pageSize)

\* a reorderHeadlines that rearranged a page of a filtered query: the page held
\* several headlines, a headline outside the filter lay between two of them in
\* the global order, and another page of the query was not empty
C28_Witness ==
    /\ last.op = "reorderHeadlines"
    /\ \E filters \in PageFilters, page \in PageNumbers, pageSize \in PageSizes :
          LET pageIds == PageIds(last.pre, filters, page, pageSize)
              global == GlobalOrder(last.pre)
          IN  /\ IsPermutationOf(last.orderedIds, pageIds)
              /\ Len(pageIds) >= 2
              /\ last.orderedIds # pageIds
              /\ \E id \in HeadlineIds(last.pre) \ Range(pageIds) :
                    /\ PositionIn(global, pageIds[1]) < PositionIn(global, id)
                    /\ PositionIn(global, id) < PositionIn(global, pageIds[Len(pageIds)])
              /\ \E other \in PageNumbers \ {page} :
                    PageIds(last.pre, filters, other, pageSize) # <<>>


----------------------------------------------------------------------------
(* Headline table properties *)

\* the last step was a drag that moved a row, with the given end of the action
DragMoved(ok) ==
    /\ last.op = "onDragEnd"
    /\ last.res.ok = ok
    /\ last.destination # <<>>
    /\ last.destination[1] # last.sourceIndex

\* C26, the successful drag: the table shows the list with the dragged row at
\* its destination, and the store is the one reorderHeadlines leaves for the ids
\* of that list.
C26_OptimisticThenAction ==
    DragMoved(TRUE) =>
        /\ tableHeadlines = spliced(last.shown, last.sourceIndex, last.destination[1])
        /\ dbData.headlines = reordered(last.pre.headlines, IdsOf(tableHeadlines))

\* C26: when the reorderHeadlinesAction call of a drag fails, the table shows
\* the headlines in the order it showed before the drag.
C26_RevertsOnFailure ==
    DragMoved(FALSE) => IdsOf(tableHeadlines) = IdsOf(last.shown)


----------------------------------------------------------------------------
(* Concurrent create properties *)

\* the ids createHeadline calls have taken
CreatedIds == issued \ HeadlineIds(generateInitialData(FirstDraws))

\* the stored headlines that createHeadline calls pushed, in array sequence
CreatedHeadlines == SelectSeq(dbData.headlines, LAMBDA h : h.id \in CreatedIds)

\* the createHeadline call has taken the id and not yet pushed its headline
AboutToPush(c, id) ==
    /\ calls[c].op = "createHeadline"
    /\ calls[c].pc \in {"newId", "maxOrder"}
    /\ calls[c].newId = id

\* C29: however createHeadline calls interleave with each other and with
\* reorderHeadlines and deleteHeadline calls, no two stored headlines have the
\* same id, no two created headlines have the same order value, and every id a
\* createHeadline call took is the id of a stored headline as soon as that call
\* has pushed it.
C29_CreatesDoNotCollide ==
    /\ Distinct(IdsOf(dbData.headlines))
    /\ \A i, j \in 1..Len(CreatedHeadlines) :
          i # j => CreatedHeadlines[i].order # CreatedHeadlines[j].order
    /\ \A id \in CreatedIds :
          \/ id \in HeadlineIds(dbData)
          \/ \E c \in 1..MaxCalls : AboutToPush(c, id)
    /\ Len(CreatedHeadlines) + Cardinality({id \in CreatedIds :
                                              \E c \in 1..MaxCalls : AboutToPush(c, id)})
         = dbData.nextHeadlineId - (InitialHeadlineCount + 1)

\* two createHeadline calls were in flight together: one has returned, having
\* run while the other waited at its timer, the other has pushed its headline;
\* a headline was deleted meanwhile
C29_Witness ==
    /\ last.op = "createHeadline"
    /\ last.together
    /\ \E c \in 1..MaxCalls : calls[c].op = "createHeadline" /\ calls[c].pc = "save"
    /\ Len(CreatedHeadlines) = 2
    /\ "headline-1" \notin HeadlineIds(dbData)



====
